---- MODULE Spec2Model ----
(***************************************************************************)
(* videotagger: the duplicate resolution state machine (package ui,        *)
(* DuplicatesModel), the background deletion command it starts, and the    *)
(* files on disk.                                                          *)
(*                                                                         *)
(* Paths are the integers 1, 2, ... (a path is only ever compared for      *)
(* equality); NoPath stands for the empty string.  A group's Hash is its   *)
(* position in the index the model was built from.  currentGroup and       *)
(* currentFile are 0-based as in the Go code; sequences are 1-based.       *)
(* showHelp, width and height only feed View; they are not part of the     *)
(* state here, and the keys and messages that set them leave it unchanged. *)
(*                                                                         *)
(* Three specifications share the event loop, the deletion commands run   *)
(* one os.Remove at a time, the disk, and the end of the process:          *)
(*   Spec        every index of up to MaxFilesOnDisk files;                *)
(*   SpecGroups  every index of MaxGroupedFiles files in two groups, up to *)
(*               the first command that removes a file;                    *)
(*   SpecSerial  every index of up to MaxSerialFiles files, with no key    *)
(*               given while a command is outstanding.                     *)
(***************************************************************************)
EXTENDS Integers, Sequences, FiniteSets, TLC

\* Bound (Spec): the number of files of the duplicate index, all on disk.
MaxFilesOnDisk == 4

\* Bound (SpecGroups): the number of files of the duplicate index.
MaxGroupedFiles == 5

\* Bound (SpecSerial): the number of files of the duplicate index.
MaxSerialFiles == 6

\* Bound: commands started whose completion message has not been processed
\* yet.
MaxInFlight == 1

\* DeletionCompleteMsg.FilePath == "" ("Empty means all successful").
NoPath == 0

Range(s) == {s[i] : i \in 1..Len(s)}

VARIABLES
    m,            \* the DuplicatesModel the event loop holds
    tasks,        \* deletion commands started, message not yet processed
    disk,         \* the paths that exist on disk
    program,      \* "running" | "quit pending" (tea.Quit returned, its
                  \* message not yet read) | "stopped" (Run has returned) |
                  \* "exited"
    lastRemoved   \* groupsToRemove of the last success sentinel processed

\* The tagging batch (TagCmd.Run); idle in the duplicates specifications.
VARIABLES
    run,          \* TagCmd.Run: cmd.Files, cmd.Workers, workers, the place in Run
    jobs,         \* the jobs channel: buffer, capacity, closed
    wg,           \* the sync.WaitGroup counter
    procs,        \* the goroutines running ProcessVideoFile, by id (0 is Run itself)
    fs,           \* the filesystem: path -> [IsDir, content]
    results       \* per entry of cmd.Files: the calls made for it and its outcome

\* A call of one of package video's functions on its own: the arguments and
\* what it returned; idle while a command runs.
VARIABLES call

dupvars == <<m, tasks, disk, program, lastRemoved>>

tagvars == <<run, jobs, wg, procs, fs, results>>

vars == <<m, tasks, disk, program, lastRemoved, run, jobs, wg, procs, fs, results, call>>

\* The tagging batch when no tag command runs.
NoBatch ==
    /\ run = [pc |-> "none"]
    /\ jobs = [buf |-> <<>>, cap |-> 0, closed |-> FALSE]
    /\ wg = 0
    /\ procs = <<>>
    /\ fs = <<>>
    /\ results = <<>>
    /\ call = [stage |-> "none"]

----------------------------------------------------------------------------
(* The duplicate index handed to NewDuplicatesModel: groups of at least two *)
(* distinct paths each, no path in two groups (FindDuplicatesByHash).       *)

\* Sequences of group sizes (each >= 2) with at most n files in total.
RECURSIVE SizeLists(_)
SizeLists(n) ==
    {<<>>} \cup
    UNION {{<<k>> \o rest : rest \in SizeLists(n - k)} : k \in 2..n}

RECURSIVE SumSeq(_)
SumSeq(s) == IF s = <<>> THEN 0 ELSE Head(s) + SumSeq(Tail(s))

\* Files of the i-th group: consecutive paths after those of the groups before it.
IndexFiles(sizes, i) ==
    LET start == SumSeq(SubSeq(sizes, 1, i - 1))
    IN  [j \in 1..sizes[i] |-> start + j]

\* Mutant: the first file of a new group is selected.
NewGroup_FirstSelected(hash, files) ==
    [Hash |-> hash,
     Files |-> files,
     Selected |-> [j \in 1..Len(files) |-> j = 1],
     DeletedFiles |-> <<>>]

NewGroup(hash, files) ==
    [Hash |-> hash,
     Files |-> files,
     Selected |-> [j \in 1..Len(files) |-> FALSE],
     DeletedFiles |-> <<>>]

NewDuplicatesModel(sizes) ==
    [groups |-> [i \in 1..Len(sizes) |-> NewGroup(i, IndexFiles(sizes, i))],
     currentGroup |-> 0,
     currentFile |-> 0,
     confirmingDeletion |-> FALSE,
     pendingDeletion |-> <<>>,
     quitting |-> FALSE]

AllFiles(gs) == UNION {Range(gs[i].Files) : i \in 1..Len(gs)}

\* DuplicatesCmd.Run: with an empty index the command prints that there are
\* no duplicates and returns before a model is built, so the program starts
\* on an index of at least one group.
InitWith(n) ==
    /\ \E sizes \in SizeLists(n) \ {<<>>} : m = NewDuplicatesModel(sizes)
    /\ tasks = <<>>
    /\ disk = AllFiles(m.groups)
    /\ program = "running"
    /\ lastRemoved = <<>>
    /\ NoBatch

Init == InitWith(MaxFilesOnDisk)

\* An index of two groups.
InitGroups ==
    /\ \E sizes \in SizeLists(MaxGroupedFiles) :
          /\ Len(sizes) = 2
          /\ sizes[1] + sizes[2] = MaxGroupedFiles
          /\ m = NewDuplicatesModel(sizes)
    /\ tasks = <<>>
    /\ disk = AllFiles(m.groups)
    /\ program = "running"
    /\ lastRemoved = <<>>
    /\ NoBatch

InitSerial == InitWith(MaxSerialFiles)

----------------------------------------------------------------------------
(* Update(tea.KeyMsg).  A handler returns the new model and the command:   *)
(* "nil", "tea.Quit" or "executeDeleteCommand".                            *)

\* The keys given as input: at least one for every case of every handler;
\* "x" stands for any key no handler names.
Keys == {"ctrl+c", "q", "h", "up", "down", "j", "left", "right", "n", " ",
         "a", "c", "s", "enter", "y", "N", "esc", "x"}

Return(model, cmd) == [m |-> model, cmd |-> cmd]

\* group.Selected[m.currentFile] = !group.Selected[m.currentFile]
ToggleSelected(gs, cg, cf) ==
    [gs EXCEPT ![cg + 1].Selected[cf + 1] = ~@]

\* Mutant: the flags of every group are set.
SetAllSelected_EveryGroup(gs, cg, value) ==
    [g \in 1..Len(gs) |->
        [gs[g] EXCEPT !.Selected = [i \in 1..Len(@) |-> value]]]

\* for i := range group.Selected { group.Selected[i] = value }
SetAllSelected(gs, cg, value) ==
    [gs EXCEPT ![cg + 1].Selected = [i \in 1..Len(@) |-> value]]

\* The selected files of one group from file index i on, in file order.
RECURSIVE SelectedOfGroup(_, _)
SelectedOfGroup(group, i) ==
    IF i > Len(group.Selected) THEN <<>>
    ELSE (IF group.Selected[i] THEN <<group.Files[i]>> ELSE <<>>)
         \o SelectedOfGroup(group, i + 1)

\* The loop "for _, group := range m.groups" from group index gi on.
RECURSIVE SelectedFrom(_, _)
SelectedFrom(gs, gi) ==
    IF gi > Len(gs) THEN <<>>
    ELSE SelectedOfGroup(gs[gi], 1) \o SelectedFrom(gs, gi + 1)

\* Mutant: only the current group's selected files are collected.
SelectedFiles_CurrentGroup(gs, cg) == SelectedOfGroup(gs[cg + 1], 1)

\* selectedFiles of handleDeleteCommand: "Collect selected files from ALL
\* groups (not just current)".
SelectedFiles(gs, cg) == SelectedFrom(gs, 1)

handleDeleteCommand(model) ==
    LET selectedFiles == SelectedFiles(model.groups, model.currentGroup)
    IN  IF Len(selectedFiles) = 0
        THEN Return(model, "nil")
        ELSE Return([model EXCEPT !.pendingDeletion = selectedFiles,
                                  !.confirmingDeletion = TRUE],
                    "nil")

\* case "up", "k"
MoveUp(model) ==
    IF model.currentFile > 0
    THEN [model EXCEPT !.currentFile = @ - 1]
    ELSE model

\* case "down", "j"
MoveDown(model) ==
    IF model.currentFile < Len(model.groups[model.currentGroup + 1].Files) - 1
    THEN [model EXCEPT !.currentFile = @ + 1]
    ELSE model

\* case "left", "p"
PrevGroup(model) ==
    IF model.currentGroup > 0
    THEN [model EXCEPT !.currentGroup = @ - 1, !.currentFile = 0]
    ELSE model

\* Mutant: the file cursor is kept when the next group is entered.
NextGroup_KeepFile(model) ==
    IF model.currentGroup < Len(model.groups) - 1
    THEN [model EXCEPT !.currentGroup = @ + 1]
    ELSE model

\* case "right", "n"
NextGroup(model) ==
    IF model.currentGroup < Len(model.groups) - 1
    THEN [model EXCEPT !.currentGroup = @ + 1, !.currentFile = 0]
    ELSE model

\* Mutant: skipping a group clears its selection.
SkipGroup_ClearsSkipped(model) ==
    IF model.currentGroup < Len(model.groups) - 1
    THEN Return([model EXCEPT !.groups = SetAllSelected(@, model.currentGroup, FALSE),
                              !.currentGroup = @ + 1,
                              !.currentFile = 0],
                "nil")
    ELSE Return([model EXCEPT !.quitting = TRUE], "tea.Quit")

\* case "s": skip current group
SkipGroup(model) ==
    IF model.currentGroup < Len(model.groups) - 1
    THEN Return([model EXCEPT !.currentGroup = @ + 1, !.currentFile = 0], "nil")
    ELSE Return([model EXCEPT !.quitting = TRUE], "tea.Quit")

\* Mutant: with no group, 's' quits as it does on the last group.
NoGroupsInput_SkipQuits(model, key) ==
    IF key \in {"q", "ctrl+c", "s"}
    THEN Return([model EXCEPT !.quitting = TRUE], "tea.Quit")
    ELSE Return(model, "nil")

\* if len(m.groups) == 0 { ... }: only quit is handled.
NoGroupsInput(model, key) ==
    IF key \in {"q", "ctrl+c"}
    THEN Return([model EXCEPT !.quitting = TRUE], "tea.Quit")
    ELSE Return(model, "nil")

handleNormalInput(model, key) ==
    IF Len(model.groups) = 0
    THEN NoGroupsInput(model, key)
    ELSE CASE key \in {"ctrl+c", "q"} ->
                Return([model EXCEPT !.quitting = TRUE], "tea.Quit")
           [] key \in {"h", "?"} -> Return(model, "nil")
           [] key \in {"up", "k"} -> Return(MoveUp(model), "nil")
           [] key \in {"down", "j"} -> Return(MoveDown(model), "nil")
           [] key \in {"left", "p"} -> Return(PrevGroup(model), "nil")
           [] key \in {"right", "n"} -> Return(NextGroup(model), "nil")
           [] key = " " ->
                Return([model EXCEPT !.groups =
                            ToggleSelected(@, model.currentGroup, model.currentFile)],
                       "nil")
           [] key = "a" ->
                Return([model EXCEPT !.groups =
                            SetAllSelected(@, model.currentGroup, TRUE)],
                       "nil")
           [] key = "c" ->
                Return([model EXCEPT !.groups =
                            SetAllSelected(@, model.currentGroup, FALSE)],
                       "nil")
           [] key = "s" -> SkipGroup(model)
           [] key = "enter" -> handleDeleteCommand(model)
           [] OTHER -> Return(model, "nil")

\* Mutant: ctrl+c is not among the cancel keys.
handleConfirmationInput_NoCtrlC(model, key) ==
    CASE key \in {"y", "Y"} ->
            Return([model EXCEPT !.confirmingDeletion = FALSE], "executeDeleteCommand")
      [] key \in {"n", "N", "esc"} ->
            Return([model EXCEPT !.confirmingDeletion = FALSE,
                                 !.pendingDeletion = <<>>],
                   "nil")
      [] OTHER -> Return(model, "nil")

handleConfirmationInput(model, key) ==
    CASE key \in {"y", "Y"} ->
            Return([model EXCEPT !.confirmingDeletion = FALSE], "executeDeleteCommand")
      [] key \in {"n", "N", "ctrl+c", "esc"} ->
            Return([model EXCEPT !.confirmingDeletion = FALSE,
                                 !.pendingDeletion = <<>>],
                   "nil")
      [] OTHER -> Return(model, "nil")

\* case tea.KeyMsg of Update
UpdateKey(model, key) ==
    IF model.confirmingDeletion
    THEN handleConfirmationInput(model, key)
    ELSE handleNormalInput(model, key)

----------------------------------------------------------------------------
(* handleDeletionComplete                                                  *)

\* for _, deletedFile := range m.pendingDeletion { if file == deletedFile ...
IsDeleted(file, pending) == \E j \in 1..Len(pending) : file = pending[j]

\* Mutant: every remaining file's selection is reset.
RemainingSelected_Reset(group, fileIndex) == FALSE

\* The flag appended to remainingSelected for a file that stays: "Preserve
\* selection state for non-deleted files".
RemainingSelected(group, fileIndex) == group.Selected[fileIndex]

\* The loop over group.Files from fileIndex on; acc holds remainingFiles,
\* remainingSelected and group.DeletedFiles so far.
RECURSIVE ScanFiles(_, _, _, _)
ScanFiles(group, pending, fileIndex, acc) ==
    IF fileIndex > Len(group.Files) THEN acc
    ELSE LET file == group.Files[fileIndex]
         IN  IF IsDeleted(file, pending)
             THEN ScanFiles(group, pending, fileIndex + 1,
                            [acc EXCEPT !.DeletedFiles = Append(@, file)])
             ELSE ScanFiles(group, pending, fileIndex + 1,
                            [acc EXCEPT !.Files = Append(@, file),
                                        !.Selected =
                                            Append(@, RemainingSelected(group, fileIndex))])

\* One group after "Remove deleted files from this group".
RemoveDeletedFiles(group, pending) ==
    ScanFiles(group, pending, 1,
              [Hash |-> group.Hash, Files |-> <<>>, Selected |-> <<>>,
               DeletedFiles |-> group.DeletedFiles])

\* "Process each group to remove deleted files"
ProcessGroups(gs, pending) ==
    [gi \in 1..Len(gs) |-> RemoveDeletedFiles(gs[gi], pending)]

\* Mutant: only empty groups are marked.
MarkedForRemoval_EmptyOnly(group) == Len(group.Files) = 0

\* "Mark groups with <= 1 file for removal"
MarkedForRemoval(group) == Len(group.Files) <= 1

\* groupsToRemove: the 0-based indices of the marked groups from groupIndex
\* on, ascending.
RECURSIVE GroupsToRemove(_, _)
GroupsToRemove(gs, groupIndex) ==
    IF groupIndex >= Len(gs) THEN <<>>
    ELSE (IF MarkedForRemoval(gs[groupIndex + 1]) THEN <<groupIndex>> ELSE <<>>)
         \o GroupsToRemove(gs, groupIndex + 1)

\* Mutant: only a removed group before the cursor moves it.
AdjustCurrentGroup_Strict(cg, groupIndex) ==
    IF cg > groupIndex
    THEN (IF cg > 0 THEN cg - 1 ELSE cg)
    ELSE cg

\* "Adjust current group index if necessary"
AdjustCurrentGroup(cg, groupIndex) ==
    IF cg >= groupIndex
    THEN (IF cg > 0 THEN cg - 1 ELSE cg)
    ELSE cg

\* "Remove empty groups (in reverse order to maintain indices)": the loop
\* for i := len(groupsToRemove) - 1; i >= 0; i--, with i counted from 1 here.
RECURSIVE RemoveGroups(_, _, _, _)
RemoveGroups(gs, cg, groupsToRemove, i) ==
    IF i < 1 THEN [groups |-> gs, currentGroup |-> cg]
    ELSE LET groupIndex == groupsToRemove[i]
         IN  RemoveGroups(SubSeq(gs, 1, groupIndex) \o SubSeq(gs, groupIndex + 2, Len(gs)),
                          AdjustCurrentGroup(cg, groupIndex),
                          groupsToRemove, i - 1)

\* "Ensure currentGroup is valid"
ClampCurrentGroup(cg, gs) == IF cg >= Len(gs) THEN Len(gs) - 1 ELSE cg

\* Mutant: the file cursor is left where it was.
ClampCurrentFile_None(cf, group) == cf

\* "Ensure currentFile is valid for the current group"
ClampCurrentFile(cf, group) ==
    IF cf >= Len(group.Files)
    THEN (IF Len(group.Files) - 1 < 0 THEN 0 ELSE Len(group.Files) - 1)
    ELSE cf

\* The branch taken on the success sentinel; groupsToRemove is returned
\* beside the model.
Reindex(model) ==
    LET processed == ProcessGroups(model.groups, model.pendingDeletion)
        groupsToRemove == GroupsToRemove(processed, 0)
        removed == RemoveGroups(processed, model.currentGroup, groupsToRemove,
                                Len(groupsToRemove))
    IN  [groupsToRemove |-> groupsToRemove,
         m |-> IF Len(removed.groups) = 0
               THEN [model EXCEPT !.groups = removed.groups,
                                  !.currentGroup = removed.currentGroup,
                                  !.quitting = TRUE]
               ELSE LET cg == ClampCurrentGroup(removed.currentGroup, removed.groups)
                    IN  [model EXCEPT !.groups = removed.groups,
                                      !.currentGroup = cg,
                                      !.currentFile =
                                          ClampCurrentFile(@, removed.groups[cg + 1])]]

\* Mutant: every completion message re-indexes.
IsSuccessSentinel_AnyMsg(msg) == TRUE

\* if msg.Success && msg.FilePath == ""
IsSuccessSentinel(msg) == msg.Success /\ msg.FilePath = NoPath

handleDeletionComplete(model, msg) ==
    [(IF IsSuccessSentinel(msg) THEN Reindex(model).m ELSE model)
        EXCEPT !.pendingDeletion = <<>>]

----------------------------------------------------------------------------
(* The deletion command: the closure executeDeleteCommand returns, over a  *)
(* copy of the model.  pos is the loop's place in pendingDeletion, tried   *)
(* the paths os.Remove has been called on, msg the message returned.       *)

NoMsg == [FilePath |-> NoPath, Success |-> FALSE]

\* Mutant: the command removes the files selected when it is started, not
\* the batch that was put up for confirmation.
executeDeleteCommand_Selected(model) ==
    [pending |-> SelectedFrom(model.groups, 1), pos |-> 1, tried |-> <<>>,
     done |-> FALSE, msg |-> NoMsg]

executeDeleteCommand(model) ==
    [pending |-> model.pendingDeletion, pos |-> 1, tried |-> <<>>,
     done |-> FALSE, msg |-> NoMsg]

\* os.Remove returned nil: the loop goes on with the next path.
RemoveOk(task, filePath) ==
    [task EXCEPT !.pos = @ + 1, !.tried = Append(@, filePath)]

\* Mutant: the failure is noted and the loop goes on with the next path.
RemoveFailed_Continue(task, filePath) ==
    [task EXCEPT !.pos = @ + 1,
                 !.tried = Append(@, filePath),
                 !.msg = [FilePath |-> filePath, Success |-> FALSE]]

\* os.Remove returned an error: the closure returns the failure message.
RemoveFailed(task, filePath) ==
    [task EXCEPT !.tried = Append(@, filePath),
                 !.done = TRUE,
                 !.msg = [FilePath |-> filePath, Success |-> FALSE]]

\* The loop is over: "Empty means all successful".
AllRemoved(task) ==
    [task EXCEPT !.done = TRUE,
                 !.msg = [FilePath |-> NoPath, Success |-> TRUE]]

----------------------------------------------------------------------------
(* Spec: the event loop, the commands it runs and the disk.                *)

\* The event loop reads messages until it has read the message of tea.Quit.
Reading == program \in {"running", "quit pending"}

\* What the event loop does with the command Update returned: it starts the
\* command in a goroutine of its own and goes on reading messages.  tea.Quit
\* yields the message that ends the loop; executeDeleteCommand removes the
\* files and yields a DeletionCompleteMsg.
RunCmd(r) ==
    CASE r.cmd = "tea.Quit" ->
            /\ program' = "quit pending"
            /\ UNCHANGED tasks
      [] r.cmd = "executeDeleteCommand" ->
            /\ Len(tasks) < MaxInFlight
            /\ tasks' = Append(tasks, executeDeleteCommand(r.m))
            /\ UNCHANGED program
      [] OTHER -> UNCHANGED <<tasks, program>>

\* Update(tea.KeyMsg)
KeyMsg(key) ==
    /\ Reading
    /\ LET r == UpdateKey(m, key)
       IN  m' = r.m /\ RunCmd(r)
    /\ UNCHANGED <<disk, lastRemoved>>
    /\ UNCHANGED <<tagvars, call>>

\* os.Remove(filePath) succeeds: the file exists and is unlinked.
TaskRemove(i) ==
    /\ program # "exited"
    /\ i \in 1..Len(tasks)
    /\ ~tasks[i].done
    /\ tasks[i].pos <= Len(tasks[i].pending)
    /\ LET filePath == tasks[i].pending[tasks[i].pos]
       IN  /\ filePath \in disk
           /\ disk' = disk \ {filePath}
           /\ tasks' = [tasks EXCEPT ![i] = RemoveOk(@, filePath)]
    /\ UNCHANGED <<m, program, lastRemoved>>
    /\ UNCHANGED <<tagvars, call>>

\* os.Remove(filePath) fails: always when the file does not exist, and for
\* any other reason the filesystem may have (permissions, busy, I/O error).
TaskRemoveError(i) ==
    /\ program # "exited"
    /\ i \in 1..Len(tasks)
    /\ ~tasks[i].done
    /\ tasks[i].pos <= Len(tasks[i].pending)
    /\ tasks' = [tasks EXCEPT ![i] = RemoveFailed(@, tasks[i].pending[tasks[i].pos])]
    /\ UNCHANGED <<m, disk, program, lastRemoved>>
    /\ UNCHANGED <<tagvars, call>>

\* The loop has run through every path.
TaskReturn(i) ==
    /\ program # "exited"
    /\ i \in 1..Len(tasks)
    /\ ~tasks[i].done
    /\ tasks[i].pos > Len(tasks[i].pending)
    /\ tasks' = [tasks EXCEPT ![i] = AllRemoved(@)]
    /\ UNCHANGED <<m, disk, program, lastRemoved>>
    /\ UNCHANGED <<tagvars, call>>

\* Update(DeletionCompleteMsg): the message of a finished command reaches
\* the event loop.
DeletionCompleteMsg(i) ==
    /\ Reading
    /\ i \in 1..Len(tasks)
    /\ tasks[i].done
    /\ m' = handleDeletionComplete(m, tasks[i].msg)
    /\ lastRemoved' = IF IsSuccessSentinel(tasks[i].msg)
                      THEN Reindex(m).groupsToRemove
                      ELSE lastRemoved
    /\ tasks' = SubSeq(tasks, 1, i - 1) \o SubSeq(tasks, i + 1, Len(tasks))
    /\ UNCHANGED <<disk, program>>
    /\ UNCHANGED <<tagvars, call>>

\* The message of tea.Quit reaches the event loop: Run returns.  Messages
\* that reached the loop before it have been handled by Update.
QuitMsg ==
    /\ program = "quit pending"
    /\ program' = "stopped"
    /\ UNCHANGED <<m, tasks, disk, lastRemoved>>
    /\ UNCHANGED <<tagvars, call>>

\* Run has returned to DuplicatesCmd.Run, which returns: the process ends
\* and takes the goroutines of unfinished commands with it.  (With no
\* command unfinished nothing is left that the end could change.)
ProcessExit ==
    /\ program = "stopped"
    /\ \E i \in 1..Len(tasks) : ~tasks[i].done
    /\ program' = "exited"
    /\ UNCHANGED <<m, tasks, disk, lastRemoved>>
    /\ UNCHANGED <<tagvars, call>>

Next ==
    \/ \E key \in Keys : KeyMsg(key)
    \/ \E i \in 1..MaxInFlight : TaskRemove(i)
    \/ \E i \in 1..MaxInFlight : TaskRemoveError(i)
    \/ \E i \in 1..MaxInFlight : TaskReturn(i)
    \/ \E i \in 1..MaxInFlight : DeletionCompleteMsg(i)
    \/ QuitMsg
    \/ ProcessExit

Spec == Init /\ [][Next]_vars

----------------------------------------------------------------------------
(* SpecGroups: Spec on an index of two groups, so that one pass can remove *)
(* files of both and leave one of them active.  Bound: a run is followed   *)
(* up to the first command that removes a file; a command is started only  *)
(* while every file of the index is on disk.                               *)

KeyMsgGroups(key) ==
    /\ KeyMsg(key)
    /\ tasks' # tasks => Cardinality(disk) = MaxGroupedFiles

NextGroups ==
    \/ \E key \in Keys : KeyMsgGroups(key)
    \/ \E i \in 1..MaxInFlight : TaskRemove(i)
    \/ \E i \in 1..MaxInFlight : TaskRemoveError(i)
    \/ \E i \in 1..MaxInFlight : TaskReturn(i)
    \/ \E i \in 1..MaxInFlight : DeletionCompleteMsg(i)
    \/ QuitMsg
    \/ ProcessExit

SpecGroups == InitGroups /\ [][NextGroups]_vars

----------------------------------------------------------------------------
(* SpecSerial: Spec with an operator who gives no key while a command is   *)
(* outstanding, so that every batch is the selection at request time.      *)

KeyMsgSerial(key) ==
    /\ tasks = <<>>
    /\ KeyMsg(key)

NextSerial ==
    \/ \E key \in Keys : KeyMsgSerial(key)
    \/ \E i \in 1..MaxInFlight : TaskRemove(i)
    \/ \E i \in 1..MaxInFlight : TaskRemoveError(i)
    \/ \E i \in 1..MaxInFlight : TaskReturn(i)
    \/ \E i \in 1..MaxInFlight : DeletionCompleteMsg(i)
    \/ QuitMsg
    \/ ProcessExit

SpecSerial == InitSerial /\ [][NextSerial]_vars

----------------------------------------------------------------------------
(* Strings.  A Go string is the sequence of its characters, each a string  *)
(* of length one; all characters here are ASCII.                           *)

\* s[i], or the empty string outside s.
At(s, i) == IF i \in 1..Len(s) THEN s[i] ELSE ""

\* strings.HasPrefix
HasPrefix(s, prefix) ==
    /\ Len(s) >= Len(prefix)
    /\ SubSeq(s, 1, Len(prefix)) = prefix

\* strings.Contains
Contains(s, substr) ==
    \E i \in 0..(Len(s) - Len(substr)) :
        SubSeq(s, i + 1, i + Len(substr)) = substr

UpperChars ==
    <<"A", "B", "C", "D", "E", "F", "G", "H", "I", "J", "K", "L", "M",
      "N", "O", "P", "Q", "R", "S", "T", "U", "V", "W", "X", "Y", "Z">>

LowerChars ==
    <<"a", "b", "c", "d", "e", "f", "g", "h", "i", "j", "k", "l", "m",
      "n", "o", "p", "q", "r", "s", "t", "u", "v", "w", "x", "y", "z">>

\* strings.ToLower on one character: every ASCII upper-case letter is folded
\* to its lower-case letter, every other character is kept.
ToLowerChar(c) ==
    IF \E k \in 1..Len(UpperChars) : UpperChars[k] = c
    THEN LowerChars[CHOOSE k \in 1..Len(UpperChars) : UpperChars[k] = c]
    ELSE c

ToLower(s) == [i \in 1..Len(s) |-> ToLowerChar(s[i])]

DigitChars == <<"0", "1", "2", "3", "4", "5", "6", "7", "8", "9">>

HexChars == <<"0", "1", "2", "3", "4", "5", "6", "7", "8", "9",
              "A", "B", "C", "D", "E", "F">>

\* \d
IsDigit(c) == \E k \in 1..Len(DigitChars) : DigitChars[k] = c

\* [a-fA-F0-9]
IsHexDigit(c) == IsDigit(c) \/ c \in {"a", "b", "c", "d", "e", "f",
                                      "A", "B", "C", "D", "E", "F"}

\* The index of the last c in s, 0 if there is none.
RECURSIVE LastIndexFrom(_, _, _)
LastIndexFrom(s, c, i) ==
    IF i < 1 THEN 0
    ELSE IF s[i] = c THEN i
    ELSE LastIndexFrom(s, c, i - 1)

LastIndex(s, c) == LastIndexFrom(s, c, Len(s))

\* filepath.Ext: "the suffix beginning at the final dot in the final element
\* of path; it is empty if there is no dot".
RECURSIVE ExtFrom(_, _)
ExtFrom(path, i) ==
    IF i < 1 \/ path[i] = "/" THEN <<>>
    ELSE IF path[i] = "." THEN SubSeq(path, i, Len(path))
    ELSE ExtFrom(path, i - 1)

Ext(path) == ExtFrom(path, Len(path))

\* The decimal digits of n >= 0 (%d).
RECURSIVE Decimal(_)
Decimal(n) ==
    IF n < 10 THEN <<DigitChars[n + 1]>>
    ELSE Append(Decimal(n \div 10), DigitChars[(n % 10) + 1])

\* %04X of a 16-bit value.
Hex4(n) ==
    <<HexChars[((n \div 4096) % 16) + 1], HexChars[((n \div 256) % 16) + 1],
      HexChars[((n \div 16) % 16) + 1], HexChars[(n % 16) + 1]>>

\* Mutant: %X, the checksum without its leading zeros.
RECURSIVE StripZeros(_)
StripZeros(digits) ==
    IF Len(digits) > 1 /\ Head(digits) = "0" THEN StripZeros(Tail(digits)) ELSE digits

Hex8_NoPadding(crc) == StripZeros(Hex4(crc.hi) \o Hex4(crc.lo))

\* %08X of a uint32, held as its two 16-bit halves.
Hex8(crc) == Hex4(crc.hi) \o Hex4(crc.lo)

\* A float64 number of seconds, as strconv.ParseFloat gives it: a whole,
\* non-negative number, negative zero, or positive infinity.
Seconds(n) == [class |-> "finite", secs |-> n]

NegativeZero == [class |-> "-0", secs |-> 0]

PositiveInfinity == [class |-> "+Inf", secs |-> 0]

\* %.0f of secs / 60: the nearest integer, a tie going to the even one; the
\* sign of a negative zero is printed, and an infinity is printed as +Inf.
FormatMinutes(durationSecs) ==
    CASE durationSecs.class = "-0" -> <<"-", "0">>
      [] durationSecs.class = "+Inf" -> <<"+", "I", "n", "f">>
      [] OTHER ->
            LET q == durationSecs.secs \div 60
                r == durationSecs.secs % 60
            IN  Decimal(IF r < 30 THEN q
                        ELSE IF r > 30 THEN q + 1
                        ELSE IF q % 2 = 0 THEN q ELSE q + 1)

----------------------------------------------------------------------------
(* package video: validation.go and the file name of a tagged file         *)

VideoExtensions ==
    {<<".", "m", "p", "4">>, <<".", "w", "e", "b", "m">>, <<".", "m", "o", "v">>,
     <<".", "f", "l", "v">>, <<".", "m", "k", "v">>, <<".", "a", "v", "i">>,
     <<".", "w", "m", "v">>, <<".", "m", "p", "g">>}

IsVideoFile(path) == ToLower(Ext(path)) \in VideoExtensions

\* The first index of the run of digits that ends at index i; i + 1 if s[i]
\* is no digit.
RECURSIVE RunStart(_, _)
RunStart(s, i) ==
    IF i >= 1 /\ IsDigit(s[i]) THEN RunStart(s, i - 1) ELSE i + 1

\* wasProcessedRegex.MatchString:
\*   _\[(\d+x\d+)\]\[(\d+)min\]\[([a-fA-F0-9]{8})\]\.[^.]*$
\* The match ends at the end of the string, so its dot is the last dot; from
\* there the pattern is read backwards (a run of digits is delimited by a
\* character that is no digit, so each run is matched whole).
IsProcessed(filename) ==
    LET dot == LastIndex(filename, ".")
        hashEnd == dot - 2
        minsEnd == hashEnd - 13
        minsStart == RunStart(filename, minsEnd)
        heightEnd == minsStart - 3
        heightStart == RunStart(filename, heightEnd)
        widthEnd == heightStart - 2
        widthStart == RunStart(filename, widthEnd)
    IN  /\ dot > 0
        /\ At(filename, dot - 1) = "]"
        /\ \A k \in (hashEnd - 7)..hashEnd : IsHexDigit(At(filename, k))
        /\ At(filename, hashEnd - 8) = "["
        /\ At(filename, hashEnd - 9) = "]"
        /\ At(filename, hashEnd - 10) = "n"
        /\ At(filename, hashEnd - 11) = "i"
        /\ At(filename, hashEnd - 12) = "m"
        /\ minsStart <= minsEnd
        /\ At(filename, minsStart - 1) = "["
        /\ At(filename, minsStart - 2) = "]"
        /\ heightStart <= heightEnd
        /\ At(filename, heightStart - 1) = "x"
        /\ widthStart <= widthEnd
        /\ At(filename, widthStart - 1) = "["
        /\ At(filename, widthStart - 2) = "_"

\* Mutant: the tags are appended without the underscore.
generateTaggedFilename_NoUnderscore(originalPath, metadata, crc) ==
    LET ext == Ext(originalPath)
        baseName == SubSeq(originalPath, 1, Len(originalPath) - Len(ext))
    IN  baseName \o <<"[">> \o metadata.Resolution \o <<"]", "[">>
            \o FormatMinutes(metadata.DurationSecs) \o <<"m", "i", "n", "]", "[">>
            \o Hex8(crc) \o <<"]">> \o ext

\* fmt.Sprintf("%s_[%s][%.0fmin][%08X]%s", baseName, Resolution, DurationMins, crc, ext)
generateTaggedFilename(originalPath, metadata, crc) ==
    LET ext == Ext(originalPath)
        baseName == SubSeq(originalPath, 1, Len(originalPath) - Len(ext))
    IN  baseName \o <<"_", "[">> \o metadata.Resolution \o <<"]", "[">>
            \o FormatMinutes(metadata.DurationSecs) \o <<"m", "i", "n", "]", "[">>
            \o Hex8(crc) \o <<"]">> \o ext

----------------------------------------------------------------------------
(* package utils: IsNetworkDrive                                           *)

\* The elements of a path: the pieces between its separators, the empty
\* ones included.  (Here and below a one-element set names a value once, so
\* that it is computed once.)
FirstSeparator(path) ==
    CHOOSE k \in 1..Len(path) : path[k] = "/" /\ \A j \in 1..(k - 1) : path[j] # "/"

RECURSIVE SplitPath(_)
SplitPath(path) ==
    IF \A i \in 1..Len(path) : path[i] # "/" THEN <<path>>
    ELSE CHOOSE elements \in
            {<<first>> \o SplitPath(rest) :
                first \in {SubSeq(path, 1, FirstSeparator(path) - 1)},
                rest \in {SubSeq(path, FirstSeparator(path) + 1, Len(path))}} : TRUE

\* filepath.Clean, one element e after the elements kept so far: an empty
\* element and "." are dropped, ".." removes the element before it, is
\* dropped at the root and is kept at the start of a relative path.
CleanElement(out, e, rooted) ==
    IF e = <<>> \/ e = <<".">> THEN out
    ELSE IF e = <<".", ".">>
    THEN IF out # <<>> /\ out[Len(out)] # <<".", ".">>
         THEN SubSeq(out, 1, Len(out) - 1)
         ELSE IF rooted THEN out ELSE Append(out, e)
    ELSE Append(out, e)

\* filepath.Clean, the elements kept.
RECURSIVE CleanElements(_, _, _)
CleanElements(elements, out, rooted) ==
    IF elements = <<>> THEN out
    ELSE CHOOSE kept \in
            {CleanElements(rest, next, rooted) :
                rest \in {Tail(elements)},
                next \in {CleanElement(out, Head(elements), rooted)}} : TRUE

\* The elements written one after the other with a separator between them.
RECURSIVE JoinElements(_)
JoinElements(elements) ==
    IF elements = <<>> THEN <<>>
    ELSE IF Len(elements) = 1 THEN elements[1]
    ELSE CHOOSE joined \in
            {elements[1] \o <<"/">> \o JoinElements(rest) :
                rest \in {Tail(elements)}} : TRUE

\* filepath.Clean: the shortest path naming the same place; "." for the
\* empty path, "/" for the root.
Clean(path) ==
    CHOOSE cleaned \in
        {IF At(given, 1) = "/" THEN <<"/">> \o body
         ELSE IF body = <<>> THEN <<".">> ELSE body :
            given \in {path},
            body \in {JoinElements(
                         CleanElements(SplitPath(path), <<>>, At(path, 1) = "/"))}} :
        TRUE

\* filepath.Abs: an absolute path is cleaned, a relative one is joined to the
\* working directory and the result is cleaned.
Abs(filePath, cwd) ==
    IF At(filePath, 1) = "/" THEN Clean(filePath)
    ELSE Clean(cwd \o <<"/">> \o filePath)

networkPrefixes ==
    {<<"/", "m", "n", "t", "/">>, <<"/", "m", "e", "d", "i", "a", "/">>,
     <<"/", "V", "o", "l", "u", "m", "e", "s", "/">>}

networkIndicators ==
    {<<"n", "f", "s">>, <<"c", "i", "f", "s">>, <<"s", "m", "b">>,
     <<"w", "e", "b", "d", "a", "v">>, <<"f", "t", "p">>, <<"s", "f", "t", "p">>}

IsNetworkDrive(filePath, cwd) ==
    IF HasPrefix(filePath, <<"/", "/">>) \/ HasPrefix(filePath, <<"\\", "\\">>)
    THEN TRUE
    ELSE \E absPath \in {Abs(filePath, cwd)} :
            \/ \E prefix \in networkPrefixes : HasPrefix(absPath, prefix)
            \/ \E lowerPath \in {ToLower(absPath)} :
                  \E indicator \in networkIndicators :
                      Contains(lowerPath, indicator)

----------------------------------------------------------------------------
(* The tagging batch: TagCmd.Run, runWithTUI, ProcessVideoFile             *)

MaxArgs == 2        \* most paths on the command line
MaxWorkers == 3     \* largest --workers value
MaxCPU == 2         \* largest runtime.NumCPU()
MaxPasses == 2      \* invocations of the command, one after the other

\* What ffprobe and CRC-32 yield for a file's data, by content: the
\* resolution string, the duration in seconds, the checksum's two halves.
Media ==
    <<[Resolution |-> <<"6", "4", "0", "x", "4", "8", "0">>, DurationSecs |-> Seconds(90),
       crc |-> [hi |-> 6699, lo |-> 255]],
      [Resolution |-> <<"1", "9", "2", "0", "x", "1", "0", "8", "0">>, DurationSecs |-> Seconds(29),
       crc |-> [hi |-> 61453, lo |-> 48879]],
      [Resolution |-> <<"1", "x", "1">>, DurationSecs |-> Seconds(0),
       crc |-> [hi |-> 0, lo |-> 0]],
      [Resolution |-> <<"1", "x", "1">>, DurationSecs |-> Seconds(120),
       crc |-> [hi |-> 0, lo |-> 43981]]>>

PathA == <<"a", ".", "m", "p", "4">>
PathD == <<"d">>
PathB == <<"d", "/", "b", ".", "M", "K", "V">>
PathC == <<"d", "/", "c", ".", "t", "x", "t">>
PathT == <<"d", "/", "t", "_", "[", "1", "x", "1", "]", "[", "2", "m", "i", "n", "]",
           "[", "0", "0", "0", "0", "A", "B", "C", "D", "]", ".", "m", "p", "4">>
PathE == <<"/", "m", "n", "t", "/", "e", ".", "m", "p", "4">>
PathX == <<"x", ".", "m", "p", "4">>
PathM == <<"/", "m", "n", "t">>

\* The name PathA gets when tagged: a tagged copy of the same video.
PathATagged == generateTaggedFilename(PathA, Media[1], Media[1].crc)

File(content) == [IsDir |-> FALSE, content |-> content]

Dir == [IsDir |-> TRUE, content |-> 0]

\* The directory tree the command runs on.
InitFs ==
    (PathA :> File(1)) @@ (PathD :> Dir) @@ (PathB :> File(2))
        @@ (PathC :> File(3)) @@ (PathT :> File(4)) @@ (PathM :> Dir)
        @@ (PathE :> File(1)) @@ (PathATagged :> File(1))

\* The paths a command line may name; PathX does not exist.
ArgPaths == {PathA, PathD, PathB, PathC, PathT, PathM, PathE, PathX}

WorkingDirs == {<<"/", "w">>, <<"/", "s", "m", "b">>}

\* All the orders in which the members of S can be listed.
RECURSIVE Orderings(_)
Orderings(S) ==
    IF S = {} THEN {<<>>}
    ELSE UNION {{<<x>> \o rest : rest \in Orderings(S \ {x})} : x \in S}

\* filepath.Base of a clean path: what follows the last separator.
Base(path) == SubSeq(path, LastIndex(path, "/") + 1, Len(path))

\* The pattern findUnprocessedFilesWithFd hands to fd, matched anywhere in a
\* file name:  \.mp4|\.webm|\.mov|...   The command line is
\*     fd <pattern> --type f --case-sensitive false <directory>
\* and --case-sensitive is a switch that takes no value: letter case counts,
\* and "false" is read as one more search path.  An fd that rejects a search
\* path that is no directory exits with an error (fd = "error"); one that skips it lists the directory.
FdExtensionPattern(name) ==
    \E ext \in VideoExtensions : Contains(name, ext)

\* findUnprocessedFilesWithFd, lines 141-149.
findUnprocessedFilesWithFd(raw) ==
    SelectSeq(raw, LAMBDA line : IsVideoFile(line) /\ ~IsProcessed(line))

\* findUnprocessedFilesWithWalkDir on a directory that can be read throughout.
findUnprocessedFilesWithWalkDir(tree) ==
    SelectSeq(tree, LAMBDA path : IsVideoFile(path) /\ ~IsProcessed(path))

\* A path below the directory with a component that starts with a dot.
HiddenBelow(directory, path) ==
    \E i \in (Len(directory) + 2)..Len(path) : path[i] = "." /\ path[i - 1] = "/"

\* exec.LookPath("fd") and the exit of the fd it finds.
FdStates == {"absent", "error", "ok"}

\* The regular files below the directory.
FilesBelow(disk0, directory) ==
    {path \in DOMAIN disk0 :
        HasPrefix(path, directory \o <<"/">>) /\ ~disk0[path].IsDir}

\* FindVideoFilesRecursively, lines 16-24: the lists it can return for a
\* directory that can be read throughout.  With fd found and exiting with
\* status 0, the lines fd prints are the regular files whose name matches the
\* pattern, in any order, those under a hidden name left out or not; with fd
\* absent or failing, the files the walk comes by (in the order of their
\* names; every order is taken here, and no directory of InitFs holds two
\* untagged videos).  Either list is cut down to the video files that are
\* not tagged.
FindVideoFilesRecursively(disk0, directory, fd) ==
    LET below == FilesBelow(disk0, directory)
        matched == {path \in below : FdExtensionPattern(Base(path))}
        shown == {path \in matched : ~HiddenBelow(directory, path)}
    IN  IF fd = "ok"
        THEN {findUnprocessedFilesWithFd(raw) :
                 raw \in Orderings(matched) \cup Orderings(shown)}
        ELSE {findUnprocessedFilesWithWalkDir(tree) : tree \in Orderings(below)}

\* TagCmd.ExpandDirectories: the results it can return, one per list the
\* scans of its directories can return; err if a path cannot be stat'ed.
RECURSIVE ExpandDirectories(_, _, _)
ExpandDirectories(files, disk0, fd) ==
    IF files = <<>> THEN {[err |-> FALSE, files |-> <<>>]}
    ELSE LET path == Head(files)
         IN  IF path \notin DOMAIN disk0 THEN {[err |-> TRUE, files |-> <<>>]}
             ELSE LET found == IF disk0[path].IsDir
                               THEN FindVideoFilesRecursively(disk0, path, fd)
                               ELSE {<<path>>}
                  IN  {IF rest.err THEN rest
                       ELSE [err |-> FALSE, files |-> videoFiles \o rest.files] :
                          videoFiles \in found,
                          rest \in ExpandDirectories(Tail(files), disk0, fd)}

\* Mutant: a network drive beats an explicit worker count.
EffectiveWorkers_NetworkFirst(cmdWorkers, files, cwd, numCPU) ==
    IF \E i \in 1..Len(files) : IsNetworkDrive(files[i], cwd)
    THEN 1
    ELSE IF cmdWorkers <= 0 THEN numCPU ELSE cmdWorkers

\* TagCmd.Run, the worker count: cmd.Workers if positive, else 1 when a file
\* of the batch is on a network drive and runtime.NumCPU() when none is.
EffectiveWorkers(cmdWorkers, files, cwd, numCPU) ==
    IF cmdWorkers <= 0
    THEN IF \E i \in 1..Len(files) : IsNetworkDrive(files[i], cwd)
         THEN 1
         ELSE numCPU
    ELSE cmdWorkers

\* TagCmd.Run: the pool is used for several files and several workers.
UsesPool(files, workers) == Len(files) > 1 /\ workers > 1

NoResult == [calls |-> {}, outcome |-> "none", NewPath |-> <<>>, taken |-> 0]

IdleProc == [pc |-> "range", idx |-> 0, file |-> <<>>, content |-> 0, duration |-> 0]

\* A process that has neither returned nor crashed.
Alive == run.pc \notin {"none", "complete", "failed", "panicked"}

InitTagWith(workerFlags, cpuCounts, workingDirs) ==
    /\ m = NewDuplicatesModel(<<>>)
    /\ tasks = <<>>
    /\ disk = {}
    /\ program = "running"
    /\ lastRemoved = <<>>
    /\ \E n \in 1..MaxArgs, cmdWorkers \in workerFlags, numCPU \in cpuCounts,
          cwd \in workingDirs, fd \in FdStates :
         \E files \in [1..n -> ArgPaths] :
            run = [pc |-> "expand", Args |-> files, Files |-> files, Workers |-> cmdWorkers,
                   workers |-> 0, NumCPU |-> numCPU, cwd |-> cwd, fd |-> fd,
                   pool |-> FALSE, i |-> 0, pass |-> 1]
    /\ jobs = [buf |-> <<>>, cap |-> 0, closed |-> FALSE]
    /\ wg = 0
    /\ procs = <<>>
    /\ fs = InitFs
    /\ results = <<>>
    /\ call = [stage |-> "none"]

\* Every command line: --workers given or not, on every machine, from every
\* working directory.
InitTag == InitTagWith((-1)..MaxWorkers, 1..MaxCPU, WorkingDirs)

\* The command lines that give --workers (the count no longer depends on
\* the machine or the working directory).
InitTagFair == InitTagWith(1..MaxWorkers, {1}, {<<"/", "w">>})

\* Run, lines 31-35: expand the arguments; an error ends the command.
ExpandStep ==
    /\ run.pc = "expand"
    /\ \E expanded \in ExpandDirectories(run.Files, fs, run.fd) :
             IF expanded.err
             THEN /\ run' = [run EXCEPT !.pc = "failed"]
                  /\ results' = results
             ELSE /\ run' = [run EXCEPT !.pc = "workers", !.Files = expanded.files]
                  /\ results' = [i \in 1..Len(expanded.files) |-> NoResult]
    /\ UNCHANGED <<jobs, wg, procs, fs>>
    /\ UNCHANGED <<dupvars, call>>

\* Run, lines 36-59 and runWithTUI line 81: the worker count, then either the
\* pool with its channel or the sequential loop.
WorkerCountStep ==
    /\ run.pc = "workers"
    /\ LET workers == EffectiveWorkers(run.Workers, run.Files, run.cwd, run.NumCPU)
       IN  IF UsesPool(run.Files, workers)
           THEN /\ run' = [run EXCEPT !.pc = "spawn", !.workers = workers, !.pool = TRUE]
                /\ jobs' = [buf |-> <<>>, cap |-> Len(run.Files), closed |-> FALSE]
                /\ procs' = <<>>
           ELSE /\ run' = [run EXCEPT !.pc = "sequential", !.workers = workers]
                /\ jobs' = jobs
                /\ procs' = <<IdleProc>>
    /\ UNCHANGED <<wg, fs, results>>
    /\ UNCHANGED <<dupvars, call>>

\* runWithTUI, lines 85-94: wg.Add(1) and start one worker; after the last
\* one, go on to send.
SpawnWorker ==
    /\ run.pc = "spawn"
    /\ IF Len(procs) < run.workers
       THEN /\ wg' = wg + 1
            /\ procs' = Append(procs, IdleProc)
            /\ run' = run
       ELSE /\ run' = [run EXCEPT !.pc = "send", !.i = 0]
            /\ UNCHANGED <<wg, procs>>
    /\ UNCHANGED <<jobs, fs, results>>
    /\ UNCHANGED <<dupvars, call>>

\* runWithTUI, lines 97-99: jobs <- videoFile, which blocks while the buffer
\* is full; after the last file, go on to close.
SendJob ==
    /\ run.pc = "send"
    /\ IF run.i < Len(run.Files)
       THEN /\ Len(jobs.buf) < jobs.cap
            /\ jobs' = [jobs EXCEPT !.buf = Append(@, run.i + 1)]
            /\ run' = [run EXCEPT !.i = @ + 1]
       ELSE /\ run' = [run EXCEPT !.pc = "close"]
            /\ jobs' = jobs
    /\ UNCHANGED <<wg, procs, fs, results>>
    /\ UNCHANGED <<dupvars, call>>

\* runWithTUI, line 100: close(jobs).
CloseJobs ==
    /\ run.pc = "close"
    /\ jobs' = [jobs EXCEPT !.closed = TRUE]
    /\ run' = [run EXCEPT !.pc = "wait"]
    /\ UNCHANGED <<wg, procs, fs, results>>
    /\ UNCHANGED <<dupvars, call>>

\* wg.Wait() returns once the counter is zero.
WaitReturns(counter) == counter = 0

\* runWithTUI, lines 103-106: wait for the workers, report, return nil.
WaitStep ==
    /\ run.pc = "wait"
    /\ WaitReturns(wg)
    /\ run' = [run EXCEPT !.pc = "complete"]
    /\ UNCHANGED <<jobs, wg, procs, fs, results>>
    /\ UNCHANGED <<dupvars, call>>

\* Mutant: a worker receives whenever a file is queued, wherever it is.
AtRange_Anywhere(proc) == proc.pc # "exited"

\* A worker is at the head of "for videoFile := range jobs": it has not
\* started or ProcessVideoFile has returned.
AtRange(proc) == proc.pc = "range"

\* runWithTUI, line 89: a worker receives the next queued file.
Receive(k) ==
    /\ Alive /\ run.pool
    /\ AtRange(procs[k])
    /\ jobs.buf # <<>>
    /\ LET idx == Head(jobs.buf)
       IN  /\ procs' = [procs EXCEPT ![k] = [pc |-> "validate", idx |-> idx,
                                             file |-> run.Files[idx], content |-> 0,
                                             duration |-> 0]]
           /\ results' = [results EXCEPT ![idx].taken = @ + 1]
    /\ jobs' = [jobs EXCEPT !.buf = Tail(@)]
    /\ UNCHANGED <<run, wg, fs>>
    /\ UNCHANGED <<dupvars, call>>

\* runWithTUI, lines 88-89: the channel is closed and drained, the range loop
\* ends and the deferred wg.Done() runs.
WorkerExit(k) ==
    /\ Alive /\ run.pool
    /\ procs[k].pc = "range"
    /\ jobs.buf = <<>> /\ jobs.closed
    /\ procs' = [procs EXCEPT ![k].pc = "exited"]
    /\ wg' = wg - 1
    /\ UNCHANGED <<run, jobs, fs, results>>
    /\ UNCHANGED <<dupvars, call>>

\* Run, lines 65-70: the sequential loop takes the next file, or reports and
\* returns nil after the last.
SequentialStep ==
    /\ run.pc = "sequential"
    /\ procs[1].pc = "range"
    /\ IF run.i < Len(run.Files)
       THEN /\ procs' = [procs EXCEPT ![1] = [pc |-> "validate", idx |-> run.i + 1,
                                              file |-> run.Files[run.i + 1], content |-> 0,
                                              duration |-> 0]]
            /\ results' = [results EXCEPT ![run.i + 1].taken = @ + 1]
            /\ run' = [run EXCEPT !.i = @ + 1]
       ELSE /\ run' = [run EXCEPT !.pc = "complete"]
            /\ UNCHANGED <<procs, results>>
    /\ UNCHANGED <<jobs, wg, fs>>
    /\ UNCHANGED <<dupvars, call>>

\* ProcessVideoFile returns to its caller: the worker's range loop or the
\* sequential loop.
Returned(k, outcome, newPath, made) ==
    /\ procs' = [procs EXCEPT ![k].pc = "range"]
    /\ results' = [results EXCEPT ![procs[k].idx].outcome = outcome,
                                  ![procs[k].idx].NewPath = newPath,
                                  ![procs[k].idx].calls = @ \cup made]

\* processVideoFileCore, lines 89-114: validateVideoFile and the three skips.
Validate(k) ==
    /\ Alive
    /\ procs[k].pc = "validate"
    /\ LET videoFile == procs[k].file
       IN  IF videoFile \notin DOMAIN fs
           THEN Returned(k, "error", <<>>, {"stat"})
           ELSE IF fs[videoFile].IsDir \/ ~IsVideoFile(videoFile) \/ IsProcessed(videoFile)
           THEN Returned(k, "skipped", <<>>, {"stat"})
           ELSE /\ procs' = [procs EXCEPT ![k].pc = "metadata"]
                /\ results' = [results EXCEPT ![procs[k].idx].calls = @ \cup {"stat"}]
    /\ UNCHANGED <<run, jobs, wg, fs>>
    /\ UNCHANGED <<dupvars, call>>

\* processVideoFileCore, lines 117-122: extractVideoMetadata, its first call
\* (GetVideoResolution, line 32); ffprobe fails on a missing file and may
\* fail on a present one.
MetadataResolution(k) ==
    /\ Alive
    /\ procs[k].pc = "metadata"
    /\ \E ok \in BOOLEAN :
         IF ok /\ procs[k].file \in DOMAIN fs
         THEN /\ procs' = [procs EXCEPT ![k].pc = "duration",
                                        ![k].content = fs[procs[k].file].content]
              /\ results' = [results EXCEPT ![procs[k].idx].calls = @ \cup {"probe"}]
         ELSE Returned(k, "error", <<>>, {"probe"})
    /\ UNCHANGED <<run, jobs, wg, fs>>
    /\ UNCHANGED <<dupvars, call>>

\* extractVideoMetadata, its second call (GetVideoDuration, line 37): ffprobe
\* runs again, on the file as it is by then.
MetadataDuration(k) ==
    /\ Alive
    /\ procs[k].pc = "duration"
    /\ \E ok \in BOOLEAN :
         IF ok /\ procs[k].file \in DOMAIN fs
         THEN /\ procs' = [procs EXCEPT ![k].pc = "hash",
                                        ![k].duration = fs[procs[k].file].content]
              /\ results' = results
         ELSE Returned(k, "error", <<>>, {"probe"})
    /\ UNCHANGED <<run, jobs, wg, fs>>
    /\ UNCHANGED <<dupvars, call>>

\* processVideoFileCore, lines 125-134: calculateFileHash, then the new name
\* from the resolution and the duration ffprobe gave and the checksum.
Hash(k) ==
    /\ Alive
    /\ procs[k].pc = "hash"
    /\ \E ok \in BOOLEAN :
         IF ok /\ procs[k].file \in DOMAIN fs
         THEN /\ procs' = [procs EXCEPT ![k].pc = "rename"]
              /\ results' = [results EXCEPT
                    ![procs[k].idx].calls = @ \cup {"hash"},
                    ![procs[k].idx].NewPath =
                        generateTaggedFilename(
                            procs[k].file,
                            [Resolution |-> Media[procs[k].content].Resolution,
                             DurationSecs |-> Media[procs[k].duration].DurationSecs],
                            Media[fs[procs[k].file].content].crc)]
         ELSE Returned(k, "error", <<>>, {"hash"})
    /\ UNCHANGED <<run, jobs, wg, fs>>
    /\ UNCHANGED <<dupvars, call>>

\* os.Rename: the entry moves to the new name, replacing what was there.
Rename(disk0, oldPath, newPath) ==
    [path \in (DOMAIN disk0 \ {oldPath}) \cup {newPath} |->
        IF path = newPath THEN disk0[oldPath] ELSE disk0[path]]

\* processVideoFileCore, lines 137-143: renameVideoFile; it fails on a missing
\* file and may fail on a present one.
RenameStep(k) ==
    /\ Alive
    /\ procs[k].pc = "rename"
    /\ LET newPath == results[procs[k].idx].NewPath
       IN  \E ok \in BOOLEAN :
             IF ok /\ procs[k].file \in DOMAIN fs
             THEN /\ fs' = Rename(fs, procs[k].file, newPath)
                  /\ procs' = [procs EXCEPT ![k].pc = "report"]
                  /\ results' = [results EXCEPT ![procs[k].idx].calls = @ \cup {"rename"},
                                                ![procs[k].idx].outcome = "renamed"]
             ELSE /\ Returned(k, "error", newPath, {"rename"})
                  /\ fs' = fs
    /\ UNCHANGED <<run, jobs, wg>>
    /\ UNCHANGED <<dupvars, call>>

\* ProcessVideoFile, lines 168-190, after a rename: os.Stat of the old name;
\* with no file there fileInfo is nil and fileInfo.Size() panics.  The panic
\* unwinds the goroutine it happened in; the other goroutines run on.
Report(k) ==
    /\ Alive
    /\ procs[k].pc = "report"
    /\ procs' = [procs EXCEPT ![k].pc =
                    IF procs[k].file \in DOMAIN fs THEN "range" ELSE "panic"]
    /\ UNCHANGED <<run, jobs, wg, fs, results>>
    /\ UNCHANGED <<dupvars, call>>

\* runWithTUI, line 88: the panic unwinds the worker's goroutine and runs its
\* deferred wg.Done().
DeferredDone(k) ==
    /\ Alive /\ run.pool
    /\ procs[k].pc = "panic"
    /\ procs' = [procs EXCEPT ![k].pc = "dying"]
    /\ wg' = wg - 1
    /\ UNCHANGED <<run, jobs, fs, results>>
    /\ UNCHANGED <<dupvars, call>>

\* The goroutine has no deferred call left to run: a pool worker past its
\* wg.Done(), or the goroutine of Run (lines 65-70) in the sequential loop.
Unwound(proc) == proc.pc = "dying" \/ (proc.pc = "panic" /\ ~run.pool)

\* Some goroutine of the process is panicking.
Panicking == \E k \in 1..Len(procs) : procs[k].pc \in {"panic", "dying"}

\* Nobody recovers the panic: the runtime ends the process with all its
\* goroutines, wherever they are; Run may have returned by then.
FatalExit(k) ==
    /\ Alive \/ run.pc = "complete"
    /\ Unwound(procs[k])
    /\ run' = [run EXCEPT !.pc = "panicked"]
    /\ UNCHANGED <<jobs, wg, procs, fs, results>>
    /\ UNCHANGED <<dupvars, call>>

\* The paths the renames of this invocation produced, in input order.
Produced == SelectSeq([i \in 1..Len(results) |->
                          IF results[i].outcome = "renamed" THEN results[i].NewPath ELSE <<>>],
                      LAMBDA path : path # <<>>)

\* The command is run again, on the files the last invocation produced.
SecondRun ==
    /\ run.pc = "panicked" \/ (run.pc = "complete" /\ ~Panicking)
    /\ run.pass < MaxPasses
    /\ Produced # <<>>
    /\ run' = [run EXCEPT !.pc = "expand", !.Args = Produced, !.Files = Produced, !.workers = 0,
                          !.pool = FALSE, !.i = 0, !.pass = @ + 1]
    /\ jobs' = [buf |-> <<>>, cap |-> 0, closed |-> FALSE]
    /\ wg' = 0
    /\ procs' = <<>>
    /\ results' = <<>>
    /\ UNCHANGED fs
    /\ UNCHANGED <<dupvars, call>>

ProcessVideoFileStep ==
    \E k \in 1..Len(procs) :
        \/ Validate(k)
        \/ MetadataResolution(k)
        \/ MetadataDuration(k)
        \/ Hash(k)
        \/ RenameStep(k)
        \/ Report(k)
        \/ DeferredDone(k)
        \/ FatalExit(k)

WorkerStep == \E k \in 1..Len(procs) : Receive(k) \/ WorkerExit(k)

NextTag ==
    \/ ExpandStep
    \/ WorkerCountStep
    \/ SpawnWorker
    \/ SendJob
    \/ CloseJobs
    \/ WaitStep
    \/ WorkerStep
    \/ SequentialStep
    \/ ProcessVideoFileStep
    \/ SecondRun

SpecTag == InitTag /\ [][NextTag]_vars

\* One invocation of the command: every step but the start of the next one.
NextBatch ==
    \/ ExpandStep
    \/ WorkerCountStep
    \/ SpawnWorker
    \/ SendJob
    \/ CloseJobs
    \/ WaitStep
    \/ WorkerStep
    \/ SequentialStep
    \/ ProcessVideoFileStep

\* One invocation with --workers given, under a scheduler that runs a
\* goroutine whenever one can take a step, every call ProcessVideoFile makes
\* returning.
SpecTagFair == InitTagFair /\ [][NextBatch]_vars /\ WF_vars(NextBatch)

----------------------------------------------------------------------------
(* The file-name codec on its own: generateTaggedFilename, IsProcessed,    *)
(* ExtractHashFromFilename                                                 *)

\* hashRegex \[([a-fA-F0-9]{8})\] matches at index i of s.
HashGroupAt(s, i) ==
    /\ At(s, i) = "["
    /\ \A k \in (i + 1)..(i + 8) : IsHexDigit(At(s, k))
    /\ At(s, i + 9) = "]"

\* hashRegex.FindAllStringSubmatch: the start of every match.  A match holds
\* no "[" after its first character, so no two candidates overlap and every
\* candidate is a match.
HashGroups(s) == {i \in 1..Len(s) : HashGroupAt(s, i)}

Max(S) == CHOOSE x \in S : \A y \in S : y <= x

Min(S) == CHOOSE x \in S : \A y \in S : x <= y

\* Mutant: the first bracket group is returned.
ExtractHashFromFilename_First(filename) ==
    IF ~IsProcessed(filename) THEN [hash |-> <<>>, ok |-> FALSE]
    ELSE IF HashGroups(filename) = {} THEN [hash |-> <<>>, ok |-> FALSE]
    ELSE LET first == Min(HashGroups(filename))
         IN  [hash |-> SubSeq(filename, first + 1, first + 8), ok |-> TRUE]

\* ExtractHashFromFilename: ("", false) unless wasProcessedRegex matches, else
\* the submatch of the last match of hashRegex.
ExtractHashFromFilename(filename) ==
    IF ~IsProcessed(filename) THEN [hash |-> <<>>, ok |-> FALSE]
    ELSE IF HashGroups(filename) = {} THEN [hash |-> <<>>, ok |-> FALSE]
    ELSE LET lastMatch == Max(HashGroups(filename))
         IN  [hash |-> SubSeq(filename, lastMatch + 1, lastMatch + 8), ok |-> TRUE]

\* Paths handed to generateTaggedFilename.
CodecPaths ==
    {<<"a", ".", "m", "p", "4">>,
     <<"M", "[", "2", "0", "2", "3", "]", ".", "M", "K", "V">>,
     <<"S", "[", "0", "0", "0", "0", "0", "0", "0", "a", "]", "_", "x", ".", "a", "v", "i">>,
     <<"d", ".", "x", "/", "a">>,
     <<"a">>,
     <<"a", ".", "[", "A", "B", "C", "D", "E", "F", "1", "2", "]">>}

\* Resolutions matching ^\d+x\d+$ (GetVideoResolution returns no other).
CodecResolutions ==
    {<<"1", "x", "1">>, <<"6", "4", "0", "x", "4", "8", "0">>,
     <<"1", "9", "2", "0", "x", "1", "0", "8", "0">>}

\* Durations in seconds.
CodecDurations ==
    {Seconds(0), Seconds(29), Seconds(30), Seconds(90), Seconds(5999), Seconds(360000),
     NegativeZero, PositiveInfinity}

\* CRC-32 values, as their 16-bit halves.
CodecChecksums ==
    {[hi |-> 0, lo |-> 0], [hi |-> 0, lo |-> 43981], [hi |-> 65535, lo |-> 65535],
     [hi |-> 6699, lo |-> 255], [hi |-> 43981, lo |-> 61203]}

\* File names handed to ExtractHashFromFilename: a stem, a tag (well-formed or
\* not) and an ending.
NameStems ==
    {<<"v">>, <<"M", "[", "2", "0", "2", "3", "]">>,
     <<"S", "[", "0", "0", "0", "0", "0", "0", "0", "a", "]">>}

NameTags ==
    {<<"_", "[", "1", "x", "1", "]", "[", "2", "m", "i", "n", "]",
       "[", "0", "0", "0", "0", "A", "B", "C", "D", "]">>,
     <<"_", "[", "1", "x", "1", "]", "[", "2", "m", "i", "n", "]",
       "[", "a", "b", "c", "d", "1", "2", "3", "4", "]">>,
     <<"_", "[", "1", "x", "1", "]", "[", "2", "]",
       "[", "0", "0", "0", "0", "A", "B", "C", "D", "]">>,
     <<"_", "[", "1", "x", "1", "]", "[", "2", "m", "i", "n", "]", "[", "A", "B", "C", "]">>,
     <<"_", "[", "1", "x", "1", "]", "[", "2", "m", "i", "n", "]",
       "[", "G", "G", "G", "G", "G", "G", "G", "G", "]">>,
     <<"[", "1", "x", "1", "]", "[", "2", "m", "i", "n", "]",
       "[", "0", "0", "0", "0", "A", "B", "C", "D", "]">>,
     <<"_", "[", "1", "-", "1", "]", "[", "2", "m", "i", "n", "]",
       "[", "0", "0", "0", "0", "A", "B", "C", "D", "]">>,
     <<>>}

NameEndings ==
    {<<".", "m", "p", "4">>, <<>>, <<".", "m", "p", "4", ".", "b", "a", "k">>,
     <<".", "[", "D", "E", "A", "D", "B", "E", "E", "F", "]">>}

NameSamples ==
    {stem \o tag \o ending : stem \in NameStems, tag \in NameTags, ending \in NameEndings}

NoMetadata == [Resolution |-> <<>>, DurationSecs |-> Seconds(0)]

NoChecksum == [hi |-> 0, lo |-> 0]

\* Either the arguments of generateTaggedFilename, or a file name as given.
InitCodec ==
    /\ m = NewDuplicatesModel(<<>>)
    /\ tasks = <<>>
    /\ disk = {}
    /\ program = "running"
    /\ lastRemoved = <<>>
    /\ run = [pc |-> "none"]
    /\ jobs = [buf |-> <<>>, cap |-> 0, closed |-> FALSE]
    /\ wg = 0
    /\ procs = <<>>
    /\ fs = <<>>
    /\ results = <<>>
    /\ \/ \E path \in CodecPaths, resolution \in CodecResolutions,
            secs \in CodecDurations, crc \in CodecChecksums :
            call = [stage |-> "input", encoded |-> TRUE, path |-> path,
                    metadata |-> [Resolution |-> resolution, DurationSecs |-> secs],
                    crc |-> crc, name |-> <<>>, hash |-> <<>>, ok |-> FALSE]
       \/ \E name \in NameSamples :
            call = [stage |-> "name", encoded |-> FALSE, path |-> <<>>,
                    metadata |-> NoMetadata, crc |-> NoChecksum,
                    name |-> name, hash |-> <<>>, ok |-> FALSE]

\* generateTaggedFilename is applied to the arguments.
Encode ==
    /\ call.stage = "input"
    /\ call' = [call EXCEPT !.stage = "name",
                            !.name = generateTaggedFilename(call.path, call.metadata, call.crc)]
    /\ UNCHANGED <<dupvars, tagvars>>

\* ExtractHashFromFilename is applied to the name.
ExtractHash ==
    /\ call.stage = "name"
    /\ LET extracted == ExtractHashFromFilename(call.name)
       IN  call' = [call EXCEPT !.stage = "extracted",
                                !.hash = extracted.hash, !.ok = extracted.ok]
    /\ UNCHANGED <<dupvars, tagvars>>

NextCodec == Encode \/ ExtractHash

SpecCodec == InitCodec /\ [][NextCodec]_vars

----------------------------------------------------------------------------
(* package video: discovery.go                                             *)

ScanRoot == <<"r">>

\* A tagged video in a hidden directory.
ScanHidden ==
    <<"r", "/", ".", "h", "/", "v", "4", "_", "[", "1", "x", "1", "]", "[", "2", "m", "i",
      "n", "]", "[", "0", "0", "0", "0", "A", "B", "C", "D", "]", ".", "m", "p", "4">>

\* A video whose tag has no valid resolution.
ScanMalformed ==
    <<"r", "/", "b", "_", "[", "1", "-", "1", "]", "[", "2", "m", "i", "n", "]", "[", "0",
      "0", "0", "0", "A", "B", "C", "D", "]", ".", "m", "p", "4">>

\* A tagged name that is no video.
ScanNotVideo ==
    <<"r", "/", "n", "_", "[", "1", "x", "1", "]", "[", "2", "m", "i", "n", "]", "[", "0",
      "0", "0", "0", "A", "B", "C", "D", "]", ".", "t", "x", "t">>

\* A tagged video in a subdirectory, upper-case extension.
ScanSub ==
    <<"r", "/", "s", "/", "v", "2", "_", "[", "1", "x", "1", "]", "[", "2", "m", "i", "n",
      "]", "[", "0", "0", "0", "0", "A", "B", "C", "D", "]", ".", "M", "K", "V">>

\* An untagged video, upper-case name and extension.
ScanUpper ==
    <<"r", "/", "U", ".", "M", "P", "4">>

\* An untagged video.
ScanUntagged ==
    <<"r", "/", "u", ".", "m", "p", "4">>

\* A tagged video.
ScanTagged ==
    <<"r", "/", "v", "1", "_", "[", "1", "x", "1", "]", "[", "2", "m", "i", "n", "]", "[",
      "0", "0", "0", "0", "A", "B", "C", "D", "]", ".", "m", "p", "4">>

\* A tagged video, the same hash in lower case.
ScanLower ==
    <<"r", "/", "v", "3", "_", "[", "1", "x", "1", "]", "[", "2", "m", "i", "n", "]", "[",
      "0", "0", "0", "0", "a", "b", "c", "d", "]", ".", "m", "p", "4">>

\* A tagged video with a hash of its own.
ScanUnique ==
    <<"r", "/", "v", "5", "_", "[", "1", "x", "1", "]", "[", "2", "m", "i", "n", "]", "[",
      "D", "E", "A", "D", "B", "E", "E", "F", "]", ".", "a", "v", "i">>

\* The files a scanned directory may hold, in the order filepath.WalkDir
\* visits them (each directory's entries by name).
ScanPool ==
    <<ScanHidden, ScanUpper, ScanMalformed, ScanNotVideo, ScanSub, ScanUntagged,
      ScanTagged, ScanLower, ScanUnique>>

RECURSIVE Reverse(_)
Reverse(list) == IF list = <<>> THEN <<>> ELSE Append(Reverse(Tail(list)), Head(list))

\* A path below the scanned root with a component that starts with a dot.
IsHidden(path) == HiddenBelow(ScanRoot, path)

\* The pattern findTaggedFilesWithFd hands to fd, matched anywhere in a file
\* name:  _\[.*\]\[.*min\]\[[a-fA-F0-9]{8}\]\.
FdTaggedPattern(name) ==
    \E i, j, k \in 1..Len(name) :
        /\ At(name, i) = "_" /\ At(name, i + 1) = "["
        /\ j >= i + 2 /\ At(name, j) = "]" /\ At(name, j + 1) = "["
        /\ k >= j + 2
        /\ At(name, k) = "m" /\ At(name, k + 1) = "i" /\ At(name, k + 2) = "n"
        /\ At(name, k + 3) = "]"
        /\ HashGroupAt(name, k + 4)
        /\ At(name, k + 14) = "."

\* What fd prints, given the regular files whose name matches the pattern: in
\* the order of the walk or another; entries under a hidden name are left
\* out unless fd is told otherwise, so they may be missing.
FdOutputs(all) ==
    LET shown == SelectSeq(all, LAMBDA path : ~IsHidden(path))
    IN  {all, Reverse(all), shown, Reverse(shown)}

\* findTaggedFilesWithFd, lines 163-171: the lines of the output that are
\* video files.
findTaggedFilesWithFd(raw) == SelectSeq(raw, IsVideoFile)

\* findTaggedFilesWithWalkDir on a directory that can be read throughout.
findTaggedFilesWithWalkDir(tree) ==
    SelectSeq(tree, LAMBDA path : IsVideoFile(path) /\ IsProcessed(path))

\* The walk of the named function.
WalkFiles(fn, tree) ==
    IF fn = "FindDuplicatesByHash" THEN findTaggedFilesWithWalkDir(tree)
    ELSE findUnprocessedFilesWithWalkDir(tree)

\* The walk's results: the whole list and no error, or, when an entry cannot
\* be read, the files found up to it and the error.
WalkResults(fn, tree, walkFails) ==
    IF walkFails
    THEN {[files |-> WalkFiles(fn, SubSeq(tree, 1, n)), err |-> TRUE] : n \in 0..Len(tree)}
    ELSE {[files |-> WalkFiles(fn, tree), err |-> FALSE]}

\* The fd strategy's results when fd runs and exits with status 0.
FdResults(fn, tree) ==
    IF fn = "FindDuplicatesByHash"
    THEN {[files |-> findTaggedFilesWithFd(raw), err |-> FALSE] :
             raw \in FdOutputs(SelectSeq(tree,
                              LAMBDA path : FdTaggedPattern(Base(path))))}
    ELSE {[files |-> findUnprocessedFilesWithFd(raw), err |-> FALSE] :
             raw \in FdOutputs(SelectSeq(tree,
                              LAMBDA path : FdExtensionPattern(Base(path))))}

\* Mutant: an error of fd is returned to the caller.
Discover_NoFallback(fn, tree, fd, walkFails) ==
    IF fd = "ok" THEN FdResults(fn, tree)
    ELSE IF fd = "error" THEN {[files |-> <<>>, err |-> TRUE]}
    ELSE WalkResults(fn, tree, walkFails)

\* FindVideoFilesRecursively lines 16-24, FindDuplicatesByHash lines 37-45:
\* fd if exec.LookPath finds it, the walk if it is absent or fails.
Discover(fn, tree, fd, walkFails) ==
    IF fd = "ok" THEN FdResults(fn, tree)
    ELSE WalkResults(fn, tree, walkFails)

\* FindDuplicatesByHash, lines 52-56: the paths by the hash of their name.
RECURSIVE HashToFiles(_)
HashToFiles(files) ==
    IF files = <<>> THEN <<>>
    ELSE LET path == files[Len(files)]
             before == HashToFiles(SubSeq(files, 1, Len(files) - 1))
             extracted == ExtractHashFromFilename(Base(path))
         IN  IF ~extracted.ok THEN before
             ELSE IF extracted.hash \in DOMAIN before
                  THEN [before EXCEPT ![extracted.hash] = Append(@, path)]
                  ELSE before @@ (extracted.hash :> <<path>>)

\* FindDuplicatesByHash, lines 59-66: the hashes with more than one file.
Duplicates(hashToFiles) ==
    [hash \in {h \in DOMAIN hashToFiles : Len(hashToFiles[h]) > 1} |-> hashToFiles[hash]]

ScanFunctions == {"FindDuplicatesByHash", "FindVideoFilesRecursively"}

\* The subsequences of a sequence.
RECURSIVE SubSequences(_)
SubSequences(list) ==
    IF list = <<>> THEN {<<>>}
    ELSE LET rest == SubSequences(Tail(list))
         IN  rest \cup {<<Head(list)>> \o r : r \in rest}

\* A call of one of the two functions on a directory holding some of the
\* pool's files, with fd absent, failing or working.
InitScan ==
    /\ m = NewDuplicatesModel(<<>>)
    /\ tasks = <<>>
    /\ disk = {}
    /\ program = "running"
    /\ lastRemoved = <<>>
    /\ run = [pc |-> "none"]
    /\ jobs = [buf |-> <<>>, cap |-> 0, closed |-> FALSE]
    /\ wg = 0
    /\ procs = <<>>
    /\ fs = <<>>
    /\ results = <<>>
    /\ \E fn \in ScanFunctions, tree \in SubSequences(ScanPool),
          fd \in {"absent", "error", "ok"}, walkFails \in BOOLEAN :
         call = [stage |-> "start", fn |-> fn, tree |-> tree, fd |-> fd,
                 walkFails |-> walkFails, files |-> <<>>, err |-> FALSE,
                 index |-> <<>>]

\* The list of files is found, by fd or by the walk.
Scan ==
    /\ call.stage = "start"
    /\ \E found \in Discover(call.fn, call.tree, call.fd, call.walkFails) :
         call' = [call EXCEPT !.stage = "listed", !.files = found.files, !.err = found.err]
    /\ UNCHANGED <<dupvars, tagvars>>

\* FindDuplicatesByHash, lines 47-66: nil and the error, or the index.
BuildIndex ==
    /\ call.stage = "listed"
    /\ call.fn = "FindDuplicatesByHash"
    /\ call' = [call EXCEPT !.stage = "indexed",
                            !.index = IF call.err THEN <<>>
                                      ELSE Duplicates(HashToFiles(call.files))]
    /\ UNCHANGED <<dupvars, tagvars>>

NextScan == Scan \/ BuildIndex

SpecScan == InitScan /\ [][NextScan]_vars

----------------------------------------------------------------------------
(* NewDuplicatesModel on an index: a map from hash to the list of files     *)
(* with that hash, iterated in whatever order the Go map gives.             *)

MaxIndexHashes == 2
MaxIndexFiles == 5

\* Lists of two or three distinct paths.
FileLists ==
    {x \in (1..MaxIndexFiles) \X (1..MaxIndexFiles) : x[1] # x[2]}
    \cup {x \in (1..MaxIndexFiles) \X (1..MaxIndexFiles) \X (1..MaxIndexFiles) :
              x[1] # x[2] /\ x[1] # x[3] /\ x[2] # x[3]}

\* The maps FindDuplicatesByHash can return: no path under two hashes.
Indexes ==
    UNION {{d \in [hashes -> FileLists] :
                \A h1, h2 \in hashes : h1 # h2 => Range(d[h1]) \cap Range(d[h2]) = {}} :
           hashes \in SUBSET (1..MaxIndexHashes)}

\* The orders in which "for hash, files := range duplicates" may visit the
\* keys.
RangeOrders(keys) ==
    {order \in [1..Cardinality(keys) -> keys] :
         \A i, j \in 1..Cardinality(keys) : i # j => order[i] # order[j]}

\* NewDuplicatesModel(duplicates), the keys visited in the given order.
NewDuplicatesModelFromIndex(duplicates, order) ==
    [groups |-> [i \in 1..Len(order) |-> NewGroup(order[i], duplicates[order[i]])],
     currentGroup |-> 0,
     currentFile |-> 0,
     confirmingDeletion |-> FALSE,
     pendingDeletion |-> <<>>,
     quitting |-> FALSE]

\* Who calls the constructor: DuplicatesCmd.Run with the index it has built,
\* or a caller that hands it a map directly, as the tests of package ui do
\* (TestNewDuplicatesModelEmptyInput hands it the empty map).
Callers == {"DuplicatesCmd.Run", "direct"}

InitNew ==
    /\ m = NewDuplicatesModel(<<>>)
    /\ tasks = <<>>
    /\ program = "running"
    /\ lastRemoved = <<>>
    /\ run = [pc |-> "none"]
    /\ jobs = [buf |-> <<>>, cap |-> 0, closed |-> FALSE]
    /\ wg = 0
    /\ procs = <<>>
    /\ fs = <<>>
    /\ results = <<>>
    /\ \E duplicates \in Indexes, caller \in Callers, noTUI \in BOOLEAN :
          /\ caller = "direct" => ~noTUI
          /\ call = [stage |-> "index", caller |-> caller, NoTUI |-> noTUI,
                     duplicates |-> duplicates]
          /\ disk = UNION {Range(duplicates[h]) : h \in DOMAIN duplicates}

\* DuplicatesCmd.Run, lines 30-33: "No duplicates found"; the command
\* returns and no model is built.
RunNoDuplicates ==
    /\ call.stage = "index"
    /\ call.caller = "DuplicatesCmd.Run"
    /\ DOMAIN call.duplicates = {}
    /\ call' = [call EXCEPT !.stage = "none found"]
    /\ UNCHANGED <<dupvars, tagvars>>

\* DuplicatesCmd.Run, lines 36-45: with --no-tui the groups are printed; the
\* command returns and no model is built.
RunNoTUI ==
    /\ call.stage = "index"
    /\ call.caller = "DuplicatesCmd.Run"
    /\ DOMAIN call.duplicates # {}
    /\ call.NoTUI
    /\ call' = [call EXCEPT !.stage = "listed"]
    /\ UNCHANGED <<dupvars, tagvars>>

\* ui.NewDuplicatesModel(duplicates): in DuplicatesCmd.Run (line 48) on an
\* index that is not empty and without --no-tui, or called directly.
Construct ==
    /\ call.stage = "index"
    /\ call.caller = "DuplicatesCmd.Run" =>
            DOMAIN call.duplicates # {} /\ ~call.NoTUI
    /\ \E order \in RangeOrders(DOMAIN call.duplicates) :
          m' = NewDuplicatesModelFromIndex(call.duplicates, order)
    /\ call' = [call EXCEPT !.stage = "built"]
    /\ UNCHANGED <<tasks, disk, program, lastRemoved, tagvars>>

NextNew == RunNoDuplicates \/ RunNoTUI \/ Construct

SpecNew == InitNew /\ [][NextNew]_vars

----------------------------------------------------------------------------
(* package video: ReencodeToH265 on one file.  The call's disk holds the    *)
(* three paths the function touches, each absent or holding the original    *)
(* content, the encoder's output, or what an earlier run left there.        *)

OriginalPath == "videoFile"
TempPath == "tempFile"
BackupPath == "backupFile"

AtPath(path, content) == [p \in {path} |-> content]

\* The disk without the path.
Without(disk0, path) == [p \in DOMAIN disk0 \ {path} |-> disk0[p]]

\* The original file exists; a temporary or backup file of an earlier run
\* may be there.
InitReencode ==
    /\ m = NewDuplicatesModel(<<>>)
    /\ tasks = <<>>
    /\ disk = {}
    /\ program = "running"
    /\ lastRemoved = <<>>
    /\ run = [pc |-> "none"]
    /\ jobs = [buf |-> <<>>, cap |-> 0, closed |-> FALSE]
    /\ wg = 0
    /\ procs = <<>>
    /\ fs = <<>>
    /\ results = <<>>
    /\ \E isVideo, keepOriginal \in BOOLEAN :
         \E stale \in SUBSET {TempPath, BackupPath} :
            call = [stage |-> "validate",
                    IsVideoFile |-> isVideo,
                    KeepOriginal |-> keepOriginal,
                    disk |-> AtPath(OriginalPath, "original")
                                @@ [p \in stale |-> "stale"],
                    deferred |-> FALSE,
                    OriginalCodec |-> "",
                    failed |-> {},
                    result |-> "none"]

\* A return statement: the result is set; the deferred removal is still to
\* run if it was registered.
ReencodeReturn(result, failure) ==
    [call EXCEPT !.stage = "deferred", !.result = result,
                 !.failed = @ \cup failure]

\* Lines 893-897 and 900-905: IsVideoFile, then GetFileSize(videoFile).
ReencodeValidate ==
    /\ call.stage = "validate"
    /\ \/ /\ ~call.IsVideoFile
          /\ call' = ReencodeReturn("skipped", {})
       \/ /\ call.IsVideoFile
          /\ \E ok \in BOOLEAN :
                call' = IF ok THEN [call EXCEPT !.stage = "isH265"]
                        ELSE ReencodeReturn("error", {"stat"})
    /\ UNCHANGED <<dupvars, tagvars>>

\* Lines 908-917: IsH265(videoFile) runs ffprobe and waits for it; the probe
\* fails, or names a codec that is HEVC or is not.
ReencodeIsH265 ==
    /\ call.stage = "isH265"
    /\ \E outcome \in {"error", "hevc", "other"} :
          call' = CASE outcome = "error" -> ReencodeReturn("error", {"probe"})
                    [] outcome = "hevc" -> ReencodeReturn("skipped", {})
                    [] OTHER -> [call EXCEPT !.stage = "codec"]
    /\ UNCHANGED <<dupvars, tagvars>>

\* Lines 920-933: GetVideoCodec(videoFile) runs ffprobe a second time, on
\* the file as it is by then: the probe fails, or names a codec, which is
\* only recorded (HEVC is not looked for again); then the deferred removal
\* of the temporary file is registered.
ReencodeCodec ==
    /\ call.stage = "codec"
    /\ \E outcome \in {"error", "hevc", "other"} :
          call' = IF outcome = "error"
                  THEN ReencodeReturn("error", {"codec"})
                  ELSE [call EXCEPT !.stage = "encode", !.deferred = TRUE,
                                    !.OriginalCodec = outcome]
    /\ UNCHANGED <<dupvars, tagvars>>

\* Lines 935-950: ffmpeg -y ... tempFile.  When it succeeds it has written
\* the temporary file; when it fails it may have written a part of it or
\* left the path as it was.  It only reads the original.
ReencodeEncode ==
    /\ call.stage = "encode"
    /\ \E ok, partly \in BOOLEAN :
          LET written == ok \/ partly
              after == IF written
                       THEN AtPath(TempPath, IF ok THEN "reencoded" ELSE "partial")
                                @@ call.disk
                       ELSE call.disk
          IN  call' = IF ok
                      THEN [call EXCEPT !.stage = "size", !.disk = after]
                      ELSE [ReencodeReturn("error", {"encoder"}) EXCEPT !.disk = after]
    /\ UNCHANGED <<dupvars, tagvars>>

\* Lines 953-958: GetFileSize(tempFile); it fails when there is no such file
\* and may fail when there is.
ReencodeNewSize ==
    /\ call.stage = "size"
    /\ \E ok \in BOOLEAN :
          call' = IF ok /\ TempPath \in DOMAIN call.disk
                  THEN [call EXCEPT !.stage = "savings"]
                  ELSE ReencodeReturn("error", {"size"})
    /\ UNCHANGED <<dupvars, tagvars>>

\* Lines 961-970: the savings are below the minimum, or not.
ReencodeSavings ==
    /\ call.stage = "savings"
    /\ \E enough \in BOOLEAN :
          call' = IF enough
                  THEN [call EXCEPT !.stage =
                            IF call.KeepOriginal THEN "backup" ELSE "replace"]
                  ELSE ReencodeReturn("skipped", {})
    /\ UNCHANGED <<dupvars, tagvars>>

\* Lines 973-979: os.Rename(videoFile, backupFile).
ReencodeBackup ==
    /\ call.stage = "backup"
    /\ \E ok \in BOOLEAN :
          call' = IF ok
                  THEN [call EXCEPT !.stage = "replace",
                                    !.disk = Rename(@, OriginalPath, BackupPath)]
                  ELSE ReencodeReturn("error", {"backup"})
    /\ UNCHANGED <<dupvars, tagvars>>

\* The restoring rename of line 985 succeeded.
Restored(disk0) == Rename(disk0, BackupPath, OriginalPath)

\* Lines 982-993: os.Rename(tempFile, videoFile); when it fails and the
\* original was backed up, os.Rename(backupFile, videoFile), whose error is
\* dropped.  A rename fails when its source is missing and may fail anyway.
ReencodeReplace ==
    /\ call.stage = "replace"
    /\ \E ok, restoreOk \in BOOLEAN :
          call' =
              IF ok /\ TempPath \in DOMAIN call.disk
              THEN [ReencodeReturn("reencoded", {}) EXCEPT
                        !.disk = Rename(@, TempPath, OriginalPath)]
              ELSE IF call.KeepOriginal
                   THEN IF restoreOk /\ BackupPath \in DOMAIN call.disk
                        THEN [ReencodeReturn("error", {"replace"}) EXCEPT
                                  !.disk = Restored(@)]
                        ELSE ReencodeReturn("error", {"replace", "restore"})
                   ELSE ReencodeReturn("error", {"replace"})
    /\ UNCHANGED <<dupvars, tagvars>>

\* The function returns: the deferred os.Remove(tempFile) runs if it was
\* registered; its error is dropped.
ReencodeDeferred ==
    /\ call.stage = "deferred"
    /\ \E ok \in BOOLEAN :
          call' = IF call.deferred /\ ok /\ TempPath \in DOMAIN call.disk
                  THEN [call EXCEPT !.stage = "returned",
                                    !.disk = Without(@, TempPath)]
                  ELSE [call EXCEPT !.stage = "returned",
                                    !.failed = IF call.deferred /\ TempPath \in DOMAIN call.disk
                                               THEN @ \cup {"remove"} ELSE @]
    /\ UNCHANGED <<dupvars, tagvars>>

NextReencode ==
    \/ ReencodeValidate
    \/ ReencodeIsH265
    \/ ReencodeCodec
    \/ ReencodeEncode
    \/ ReencodeNewSize
    \/ ReencodeSavings
    \/ ReencodeBackup
    \/ ReencodeReplace
    \/ ReencodeDeferred

SpecReencode == InitReencode /\ [][NextReencode]_vars

----------------------------------------------------------------------------
(* Properties                                                              *)

Group(model) == model.groups[model.currentGroup + 1]

\* The flag of path p in gs (a path is in at most one group).
FlagOf(gs, p) ==
    \E g \in 1..Len(gs) : \E i \in 1..Len(gs[g].Files) :
        gs[g].Files[i] = p /\ gs[g].Selected[i]

\* The step processes a completion message (only that shortens tasks).
CompletionStep == Len(tasks') < Len(tasks)

\* C1: whenever at least one group is active, the cursor indexes a group of
\* the group list and a file (and a selection flag) of that group.
C1_CursorValid ==
    Len(m.groups) > 0 =>
        /\ 0 <= m.currentGroup /\ m.currentGroup < Len(m.groups)
        /\ 0 <= m.currentFile
        /\ m.currentFile < Len(Group(m).Files)
        /\ m.currentFile < Len(Group(m).Selected)

\* A deletion has shortened the current group, and the cursor stands on the
\* last file of what is left of it.
C1_Witness ==
    /\ Len(m.groups) > 0
    /\ Group(m).DeletedFiles # <<>>
    /\ m.currentFile = Len(Group(m).Files) - 1

\* C2: every active group has as many selection flags as files, and a
\* completion message leaves every file that stays its own flag, also when
\* the pass takes files out of several groups.
C2_FlagsParallel ==
    /\ [](\A g \in 1..Len(m.groups) :
            Len(m.groups[g].Files) = Len(m.groups[g].Selected))
    /\ [][CompletionStep =>
            \A p \in AllFiles(m'.groups) : FlagOf(m'.groups, p) = FlagOf(m.groups, p)]_vars

\* One pass has taken files out of both groups of the index: one group is
\* gone (it was left with a single file), the other has lost a file and is
\* active, with a selected file and an unselected one.
C2_Witness ==
    /\ tasks = <<>>
    /\ Len(lastRemoved) = 1
    /\ Len(m.groups) = 1
    /\ m.groups[1].DeletedFiles # <<>>
    /\ \E i, j \in 1..Len(m.groups[1].Selected) :
           m.groups[1].Selected[i] /\ ~m.groups[1].Selected[j]

\* C3: every active group has at least 2 files.
C3_NoSmallGroup ==
    \A g \in 1..Len(m.groups) : Len(m.groups[g].Files) >= 2

\* One success sentinel has removed several groups at once.
C3_Witness == Len(lastRemoved) >= 2

\* The step is a key input (Spec).
KeyStep == \E key \in Keys : KeyMsg(key)

\* The selection flags, by path.
SelectedSet(gs) == {p \in AllFiles(gs) : FlagOf(gs, p)}

\* C4: while a confirmed batch is outstanding (its completion message not
\* yet processed), a key input changes no selection flag, no cursor, not the
\* group list and not the pending batch, and neither requests (confirmation
\* prompt) nor starts another batch.
C4_NoInputWhileOutstanding ==
    [][(KeyStep /\ tasks # <<>>) =>
            /\ m'.groups = m.groups
            /\ m'.currentGroup = m.currentGroup
            /\ m'.currentFile = m.currentFile
            /\ m'.pendingDeletion = m.pendingDeletion
            /\ m'.confirmingDeletion = m.confirmingDeletion
            /\ tasks' = tasks]_vars

\* The paths the re-indexing drops from their groups on a success sentinel.
Dropped(model) ==
    AllFiles(model.groups) \ AllFiles(ProcessGroups(model.groups, model.pendingDeletion))

\* C5: when the success sentinel of a batch is processed, the paths dropped
\* from the groups are exactly the paths of that batch (as captured when it
\* was requested), and none of them exists on disk.
C5_DroppedAreTheBatch ==
    [][\A i \in 1..Len(tasks) :
            (DeletionCompleteMsg(i) /\ IsSuccessSentinel(tasks[i].msg)) =>
                /\ Dropped(m) = Range(tasks[i].pending)
                /\ Dropped(m) \cap disk = {}]_vars

\* C6: Enter outside the confirmation prompt captures exactly the files
\* whose flag is set in any group, each once, and opens the confirmation
\* prompt; with no flag set anywhere the step changes nothing.
C6_RequestDelete ==
    [][(KeyMsg("enter") /\ ~m.confirmingDeletion) =>
            IF SelectedSet(m.groups) = {}
            THEN UNCHANGED vars
            ELSE /\ Range(m'.pendingDeletion) = SelectedSet(m.groups)
                 /\ Len(m'.pendingDeletion) = Cardinality(SelectedSet(m.groups))
                 /\ m' = [m EXCEPT !.pendingDeletion = m'.pendingDeletion,
                                   !.confirmingDeletion = TRUE]
                 /\ UNCHANGED <<tasks, disk, program>>]_vars

\* The confirmation prompt is open on a batch that holds a file of a group
\* other than the current one and a file of the current group.
C6_Witness ==
    /\ m.confirmingDeletion
    /\ Len(m.groups) > 0
    /\ \E p, q \in Range(m.pendingDeletion) :
            /\ p \notin Range(Group(m).Files)
            /\ q \in Range(Group(m).Files)

\* Reference re-indexing of one group against a set of paths.
RefGroup(group, batch) ==
    LET kept == SelectSeq(group.Files, LAMBDA f : f \notin batch)
        gone == SelectSeq(group.Files, LAMBDA f : f \in batch)
    IN  [Hash |-> group.Hash,
         Files |-> kept,
         Selected |-> [k \in 1..Len(kept) |->
                          \E j \in 1..Len(group.Files) :
                              group.Files[j] = kept[k] /\ group.Selected[j]],
         DeletedFiles |-> group.DeletedFiles \o gone]

\* Reference re-indexing of the group list.
RefReindex(gs, batch) ==
    SelectSeq([g \in 1..Len(gs) |-> RefGroup(gs[g], batch)],
              LAMBDA group : Len(group.Files) >= 2)

\* C7: processing the success sentinel of a batch turns the group list into
\* the reference re-indexing of it against the paths of that batch.
C7_ReindexIsReference ==
    [][\A i \in 1..Len(tasks) :
            (DeletionCompleteMsg(i) /\ IsSuccessSentinel(tasks[i].msg)) =>
                m'.groups = RefReindex(m.groups, Range(tasks[i].pending))]_vars

Clamp(x, lo, hi) == IF x < lo THEN lo ELSE IF x > hi THEN hi ELSE x

\* The 0-based indices of the groups of gs that are not in after (by Hash).
RemovedIndices(gs, after) ==
    {g \in 0..(Len(gs) - 1) :
        \A h \in 1..Len(after) : after[h].Hash # gs[g + 1].Hash}

\* C8: on a success sentinel that leaves a group, the group cursor is its
\* previous value minus the number of removed groups at or before it,
\* clamped to the remaining groups, and the file cursor is its previous
\* value clamped into the new current group.
C8_CursorAfterReindex ==
    [][\A i \in 1..Len(tasks) :
         (DeletionCompleteMsg(i) /\ IsSuccessSentinel(tasks[i].msg)
            /\ Len(m'.groups) > 0) =>
            LET removed == RemovedIndices(m.groups, m'.groups)
                before == Cardinality({r \in removed : r <= m.currentGroup})
            IN  /\ m'.currentGroup =
                       Clamp(m.currentGroup - before, 0, Len(m'.groups) - 1)
                /\ m'.currentFile =
                       Clamp(m.currentFile, 0, Len(Group(m').Files) - 1)]_vars

\* The last success sentinel removed the first of three groups only, no key
\* has been given since, and the cursor is on the second of the two groups
\* that remain: it was on the third group and moved with it.
C8_Witness ==
    /\ lastRemoved = <<0>>
    /\ Len(m.groups) = 2
    /\ m.currentGroup = 1
    /\ m.groups[1].Hash = 2
    /\ m.pendingDeletion = <<>>
    /\ \E p \in AllFiles(m.groups) : FlagOf(m.groups, p)

\* The state of one deletion command agrees with the loop of
\* executeDeleteCommand: the paths tried are a prefix of the batch in batch
\* order, all but the last of them are off the disk, and a failure message
\* names the last path tried.
StoppedAtFirstFailure(task) ==
    /\ task.tried = SubSeq(task.pending, 1, Len(task.tried))
    /\ \A k \in 1..(Len(task.tried) - 1) : task.tried[k] \notin disk
    /\ ~task.done => \A k \in 1..Len(task.tried) : task.tried[k] \notin disk
    /\ (task.done /\ ~task.msg.Success) =>
            /\ task.tried # <<>>
            /\ task.msg.FilePath = task.tried[Len(task.tried)]

\* C9 as stated: in addition every path after the failing one is on disk.
C9_LaterPathsExist ==
    \A i \in 1..Len(tasks) :
        /\ StoppedAtFirstFailure(tasks[i])
        /\ (tasks[i].done /\ ~tasks[i].msg.Success) =>
                \A k \in (Len(tasks[i].tried) + 1)..Len(tasks[i].pending) :
                    tasks[i].pending[k] \in disk

\* C9 (amended): a batch removes its paths in order and stops at the first
\* failure; the message names the failing path, the paths before it are off
\* the disk and stay off, and the batch does nothing after the failure: a
\* finished command changes no more, and a path leaves the disk only as the
\* next path of an unfinished command.
C9_StopsAtFirstFailure ==
    /\ [](\A i \in 1..Len(tasks) : StoppedAtFirstFailure(tasks[i]))
    /\ [][/\ disk' \subseteq disk
          /\ \A p \in disk \ disk' :
                \E i \in 1..Len(tasks) :
                    /\ ~tasks[i].done
                    /\ tasks[i].pos <= Len(tasks[i].pending)
                    /\ tasks[i].pending[tasks[i].pos] = p
          /\ \A i \in 1..Len(tasks) :
                tasks[i].done =>
                    (Len(tasks') < Len(tasks) \/ tasks'[i] = tasks[i])]_vars

\* A command has failed on its third path or later, with a path of its
\* batch left untried.
C9_Witness ==
    \E i \in 1..Len(tasks) :
        /\ tasks[i].done
        /\ ~tasks[i].msg.Success
        /\ Len(tasks[i].tried) >= 3
        /\ Len(tasks[i].pending) > Len(tasks[i].tried)

\* C10: a started command is never abandoned (the process does not end with
\* a command unfinished), and a finished command's message is the success
\* sentinel iff the command removed every path of its batch (pos counts the
\* paths it removed, plus one).
C10_ConfirmRunsToCompletion ==
    /\ program = "exited" => \A i \in 1..Len(tasks) : tasks[i].done
    /\ \A i \in 1..Len(tasks) :
            tasks[i].done =>
                /\ IsSuccessSentinel(tasks[i].msg) <=>
                        tasks[i].pos = Len(tasks[i].pending) + 1
                /\ IsSuccessSentinel(tasks[i].msg) =>
                        Range(tasks[i].pending) \cap disk = {}

\* C11: a step that processes a completion message leaves the pending batch
\* empty and the confirmation prompt closed.
C11_IdleAfterCompletion ==
    [][CompletionStep =>
            /\ m'.pendingDeletion = <<>>
            /\ ~m'.confirmingDeletion]_vars

\* C12: processing a failure message clears the pending batch and changes
\* nothing else of the model (groups with their files, flags and deleted
\* files, cursor, prompt, quitting), nor the disk.
C12_FailureOnlyClearsBatch ==
    [][\A i \in 1..Len(tasks) :
            (DeletionCompleteMsg(i) /\ ~tasks[i].msg.Success) =>
                /\ m' = [m EXCEPT !.pendingDeletion = <<>>]
                /\ disk' = disk]_vars

\* No command is left and no batch is pending; a file the command removed
\* before it failed is off the disk and still listed and selected, and no
\* group has recorded a deleted file.
C12_Witness ==
    /\ tasks = <<>>
    /\ m.pendingDeletion = <<>>
    /\ \E p \in AllFiles(m.groups) : p \notin disk /\ FlagOf(m.groups, p)
    /\ \E p \in AllFiles(m.groups) : p \in disk /\ FlagOf(m.groups, p)
    /\ \A g \in 1..Len(m.groups) : m.groups[g].DeletedFiles = <<>>

\* The keys that cancel in the confirmation prompt.
CancelKeys == {"n", "N", "esc", "ctrl+c"}

\* C13: in the confirmation prompt every cancel key returns the model with
\* the prompt closed and the pending batch empty, all else as it was, and no
\* command; the step leaves the commands started, the disk and the program
\* as they are.
C13_CancelDiscardsBatch ==
    /\ [](m.confirmingDeletion =>
            \A key \in CancelKeys :
                UpdateKey(m, key) =
                    Return([m EXCEPT !.confirmingDeletion = FALSE,
                                     !.pendingDeletion = <<>>],
                           "nil"))
    /\ [][\A key \in CancelKeys :
            (KeyMsg(key) /\ m.confirmingDeletion) =>
                /\ m' = [m EXCEPT !.confirmingDeletion = FALSE,
                                  !.pendingDeletion = <<>>]
                /\ UNCHANGED <<tasks, disk, program>>]_vars

\* The confirmation prompt is open on a batch after a deletion has already
\* shortened the group list, with the cursor off its first position and a
\* file selected and a file unselected: any cancel key acts here.
C13_Witness ==
    /\ m.confirmingDeletion
    /\ m.pendingDeletion # <<>>
    /\ program = "running"
    /\ lastRemoved # <<>>
    /\ m.currentFile > 0
    /\ \E p, q \in AllFiles(m.groups) : FlagOf(m.groups, p) /\ ~FlagOf(m.groups, q)

\* C14: once a success sentinel has left no active group the model is
\* quitting, and a step from a quitting model leaves groups (files and
\* flags) and cursor as they are and the model quitting.  (Update never
\* looks at the quitting flag: a key read after the one that quit, before
\* the message of tea.Quit, is handled as any other.)
C14_QuittingIsTerminal ==
    /\ []((Len(m.groups) = 0 /\ lastRemoved # <<>>) => m.quitting)
    /\ [][m.quitting =>
            /\ m'.groups = m.groups
            /\ m'.currentGroup = m.currentGroup
            /\ m'.currentFile = m.currentFile
            /\ m'.quitting]_vars

\* A worker (or the sequential loop) that is inside ProcessVideoFile.
Busy(k) == procs[k].pc \notin {"range", "exited"}

\* C15: in one tagging batch no file is processed twice: a queued entry is
\* taken by at most one worker (by exactly one once the batch has completed),
\* no two workers are inside ProcessVideoFile for the same file at the same
\* time, and no file is hashed for two entries of the batch.
C15_NoFileProcessedTwice ==
    /\ \A i \in 1..Len(results) :
         /\ results[i].taken <= 1
         /\ run.pc = "complete" => results[i].taken = 1
    /\ \A k, l \in 1..Len(procs) :
         (k # l /\ Busy(k) /\ Busy(l)) => procs[k].file # procs[l].file
    /\ \A i, j \in 1..Len(results) :
         (i # j /\ run.Files[i] = run.Files[j])
            => ~("hash" \in results[i].calls /\ "hash" \in results[j].calls)

\* C16: the batch reports completion and returns only after every worker has
\* exited: when TagCmd.Run has returned nil, nobody is inside
\* ProcessVideoFile (or unwinding out of it) and every entry of cmd.Files was
\* taken once and has its outcome; with the pool, every worker has exited,
\* the wait-group counter is zero and the channel is closed and empty.
C16_CompleteAfterWorkersExit ==
    run.pc = "complete" =>
        /\ \A k \in 1..Len(procs) : ~Busy(k)
        /\ \A i \in 1..Len(results) :
             results[i].taken = 1 /\ results[i].outcome # "none"
        /\ run.pool =>
             /\ Len(procs) = run.workers
             /\ \A k \in 1..Len(procs) : procs[k].pc = "exited"
             /\ wg = 0
             /\ jobs.closed /\ jobs.buf = <<>>

\* C17: the worker pool always terminates: the channel's capacity is the
\* number of files, so no send finds the buffer full; the channel is closed
\* after the last send and nothing is sent on a closed channel; and every
\* pooled batch that starts its workers reaches the return of runWithTUI with
\* every worker exited, for any number of workers and files.
C17_PoolTerminates ==
    /\ []((run.pc = "send" /\ run.i < Len(run.Files)) => Len(jobs.buf) < jobs.cap)
    /\ [](jobs.closed => (run.i = Len(run.Files) /\ run.pc \notin {"spawn", "send", "close"}))
    /\ [][jobs.closed => Len(jobs'.buf) <= Len(jobs.buf)]_vars
    /\ (run.pc = "spawn")
          ~> (run.pc = "complete" /\ \A k \in 1..Len(procs) : procs[k].pc = "exited")

\* C18: a per-file failure never aborts the batch: TagCmd.Run does not return
\* an error because of an inaccessible argument, a file whose processing
\* ended in an error is still at its original path with its content (when
\* the batch names it once), and once Run has returned every entry of the
\* batch has its own outcome.
C18_FailureNeverAborts ==
    /\ run.pc # "failed"
    /\ \A i \in 1..Len(results) :
         (/\ results[i].outcome = "error"
          /\ run.Files[i] \in DOMAIN InitFs
          /\ \A j \in 1..Len(results) : run.Files[j] = run.Files[i] => j = i)
            => /\ run.Files[i] \in DOMAIN fs
               /\ fs[run.Files[i]] = InitFs[run.Files[i]]
    /\ run.pc = "complete" => \A i \in 1..Len(results) : results[i].outcome # "none"

\* TagCmd.Run has chosen its worker count.
WorkersChosen == run.pc \notin {"none", "expand", "workers", "failed"}

\* Some file of the batch is on a network drive.
HasNetworkFiles == \E i \in 1..Len(run.Files) : IsNetworkDrive(run.Files[i], run.cwd)

\* C19: the worker-count policy: a positive cmd.Workers is the effective
\* count whatever the paths are; with cmd.Workers <= 0 the count is 1 if a
\* file of the batch matches the network-drive heuristics and
\* runtime.NumCPU() if none does.  The pool is used exactly when that count
\* and the number of files both exceed 1.
C19_WorkerCountPolicy ==
    WorkersChosen =>
        /\ run.Workers > 0 => run.workers = run.Workers
        /\ (run.Workers <= 0 /\ HasNetworkFiles) => run.workers = 1
        /\ (run.Workers <= 0 /\ ~HasNetworkFiles) => run.workers = run.NumCPU
        /\ run.pool <=> (Len(run.Files) > 1 /\ run.workers > 1)

\* C19 as stated over the command line: with cmd.Workers <= 0 the count is 1
\* if an argument matches the network-drive heuristics and runtime.NumCPU()
\* if no argument does.
C19_PolicyOverArguments ==
    WorkersChosen =>
        /\ run.Workers > 0 => run.workers = run.Workers
        /\ run.Workers <= 0 =>
             run.workers = IF \E i \in 1..Len(run.Args) : IsNetworkDrive(run.Args[i], run.cwd)
                           THEN 1
                           ELSE run.NumCPU

\* C19 witness: an explicit count of 2 is in effect for a batch of two files,
\* one of them under /mnt/, and the pool runs.
C19_Witness ==
    /\ WorkersChosen
    /\ run.Workers = 2 /\ run.workers = 2 /\ run.pool
    /\ run.Files = <<PathA, PathE>>
    /\ IsNetworkDrive(PathE, run.cwd) /\ ~IsNetworkDrive(PathA, run.cwd)

\* C20: tagging is idempotent.  An entry whose path IsProcessed accepts gets
\* a stat call and nothing else, is never renamed, and its file stays where
\* it is; every path a rename produced is accepted by IsProcessed and exists;
\* and an invocation over the paths the last one produced makes no probe,
\* hash or rename call and leaves the filesystem as it was.
C20_TaggingIdempotent ==
    /\ [](\A i \in 1..Len(results) :
            /\ IsProcessed(run.Files[i]) =>
                 /\ results[i].calls \subseteq {"stat"}
                 /\ results[i].outcome \in {"none", "skipped", "error"}
                 /\ results[i].taken > 0 => run.Files[i] \in DOMAIN fs
            /\ results[i].outcome = "renamed" =>
                 /\ IsProcessed(results[i].NewPath)
                 /\ results[i].NewPath \in DOMAIN fs)
    /\ [](run.pass > 1 =>
            \A i \in 1..Len(results) :
                /\ results[i].calls \subseteq {"stat"}
                /\ results[i].outcome \in {"none", "skipped"})
    /\ [][run.pass > 1 => fs' = fs]_vars

\* C20 witness: the second invocation, over two files the first one renamed,
\* has completed in pool mode and skipped both.
C20_Witness ==
    /\ run.pass = 2 /\ run.pc = "complete" /\ run.pool
    /\ Len(run.Files) = 2
    /\ \A i \in 1..Len(results) :
         /\ results[i].outcome = "skipped"
         /\ run.Files[i] \notin DOMAIN InitFs
         /\ run.Files[i] \in DOMAIN fs

\* The regular files of a filesystem that hold the given content.
FilesWith(disk0, content) ==
    {path \in DOMAIN disk0 : ~disk0[path].IsDir /\ disk0[path].content = content}

\* C21: tagging is non-destructive: at every moment of a batch the
\* filesystem has as many entries as at the start and, for each content, as
\* many files holding it; so no rename has landed on an existing path.
C21_NonDestructive ==
    /\ Cardinality(DOMAIN fs) = Cardinality(DOMAIN InitFs)
    /\ \A content \in 1..Len(Media) :
         Cardinality(FilesWith(fs, content)) = Cardinality(FilesWith(InitFs, content))

\* C22 as stated, for every path and every duration >= 0: the name
\* generateTaggedFilename builds is accepted by IsProcessed, and
\* ExtractHashFromFilename returns ok with the checksum's eight hex digits,
\* letter case aside.
C22_RoundTripEveryPath ==
    /\ (call.stage \in {"name", "extracted"} /\ call.encoded) => IsProcessed(call.name)
    /\ (call.stage = "extracted" /\ call.encoded) =>
         /\ call.ok
         /\ ToLower(call.hash) = ToLower(Hex4(call.crc.hi) \o Hex4(call.crc.lo))

\* The extension is not empty and holds no bracketed group of 8 hex digits.
PlainExtension(path) == Ext(path) # <<>> /\ HashGroups(Ext(path)) = {}

\* %.0f prints the duration with digits only: it is not a negative zero and
\* not an infinity.
DigitsOnly(durationSecs) == durationSecs.class = "finite"

\* C22: the codec round trip for a path with a plain extension (every video
\* file has one) and a duration that %.0f prints with digits only: the
\* encoded name is accepted by IsProcessed, and ExtractHashFromFilename
\* returns ok with the checksum's eight hex digits, letter case aside.
C22_RoundTrip ==
    (/\ call.stage \in {"name", "extracted"} /\ call.encoded
     /\ PlainExtension(call.path)
     /\ DigitsOnly(call.metadata.DurationSecs)) =>
        /\ IsProcessed(call.name)
        /\ call.stage = "extracted" =>
             /\ call.ok
             /\ Len(call.hash) = 8
             /\ ToLower(call.hash) = ToLower(Hex4(call.crc.hi) \o Hex4(call.crc.lo))

\* The round trip with the duration restricted and the path free: refuted
\* by a path whose extension holds a bracketed group of 8 hex digits.
RoundTripDigitsOnly ==
    (call.stage \in {"name", "extracted"} /\ call.encoded
        /\ DigitsOnly(call.metadata.DurationSecs)) => IsProcessed(call.name)

\* The round trip with the path restricted and the duration free: refuted
\* by a negative zero ([-0min]) and by an infinity ([+Infmin]).
RoundTripPlainExtension ==
    (call.stage \in {"name", "extracted"} /\ call.encoded
        /\ PlainExtension(call.path)) => IsProcessed(call.name)

\* C22 witness: the name of a path that has a bracketed hex group of its own
\* in the stem, with a checksum that starts with zeros, gave the checksum back.
C22_Witness ==
    /\ call.stage = "extracted" /\ call.encoded /\ call.ok
    /\ HashGroups(call.path) # {}
    /\ PlainExtension(call.path)
    /\ call.crc = [hi |-> 0, lo |-> 43981]
    /\ call.hash = <<"0", "0", "0", "0", "A", "B", "C", "D">>
    /\ call.metadata.DurationSecs = Seconds(90)

\* C23: ExtractHashFromFilename returns ok exactly when IsProcessed accepts
\* the name; it then returns the eight hex digits of the last bracketed group
\* of the name, whatever bracketed tokens come earlier, and the empty string
\* when it does not return ok.
C23_LastHashGroup ==
    call.stage = "extracted" =>
        /\ call.ok <=> IsProcessed(call.name)
        /\ call.ok =>
             \E i \in 1..Len(call.name) :
                /\ HashGroupAt(call.name, i)
                /\ call.hash = SubSeq(call.name, i + 1, i + 8)
                /\ \A j \in (i + 1)..Len(call.name) : ~HashGroupAt(call.name, j)
        /\ ~call.ok => call.hash = <<>>

\* C23 witness: a tagged name whose stem holds a bracketed group of 8 hex
\* digits of its own gave the tag's hash, not the stem's.
C23_Witness ==
    /\ call.stage = "extracted" /\ ~call.encoded /\ call.ok
    /\ Cardinality(HashGroups(call.name)) = 2
    /\ call.hash = <<"a", "b", "c", "d", "1", "2", "3", "4">>
    /\ SubSeq(call.name, 3, 10) = <<"0", "0", "0", "0", "0", "0", "0", "a">>

\* The recognized video files of the scanned directory whose name is tagged.
TaggedVideos == {path \in Range(call.tree) : IsVideoFile(path) /\ IsProcessed(Base(path))}

\* The hash embedded in a tagged name.
EmbeddedHash(path) == ExtractHashFromFilename(Base(path)).hash

\* The paths the returned index lists.
Indexed == UNION {Range(call.index[hash]) : hash \in DOMAIN call.index}

\* C24: the index FindDuplicatesByHash returns lists a path of the directory
\* iff it is a tagged video file and another tagged video file under the
\* root has the same embedded hash; a path is listed once, under its own
\* hash; every group has at least 2 paths; and names that are untagged, no
\* video or malformed cause no error.
C24_IndexIsTheDuplicates ==
    (call.stage = "indexed" /\ ~call.walkFails) =>
        /\ ~call.err
        /\ \A path \in Range(call.tree) :
             path \in Indexed <=>
                /\ path \in TaggedVideos
                /\ \E other \in TaggedVideos \ {path} :
                      EmbeddedHash(other) = EmbeddedHash(path)
        /\ \A hash \in DOMAIN call.index :
             /\ Len(call.index[hash]) >= 2
             /\ \A i, j \in 1..Len(call.index[hash]) :
                  /\ EmbeddedHash(call.index[hash][i]) = hash
                  /\ call.index[hash][i] = call.index[hash][j] => i = j

\* C26: scanner equivalence: whatever fd prints for the directory, the list
\* the fd strategy returns, of tagged files as of untagged ones, holds
\* exactly the paths the walk of the same directory returns.
C26_ScannersAgree ==
    (call.stage \in {"listed", "indexed"} /\ call.fd = "ok") =>
        Range(call.files) = Range(WalkFiles(call.fn, call.tree))

\* C25: grouping compares hashes without regard to letter case: two tagged
\* files of the scanned list whose embedded hashes differ in case only are in
\* the same group of the index.
C25_GroupingIgnoresCase ==
    (call.stage = "indexed" /\ ~call.err) =>
        \A path, other \in Range(call.files) :
            (/\ path # other
             /\ ExtractHashFromFilename(Base(path)).ok
             /\ ExtractHashFromFilename(Base(other)).ok
             /\ ToLower(EmbeddedHash(path)) = ToLower(EmbeddedHash(other)))
                => \E hash \in DOMAIN call.index :
                      {path, other} \subseteq Range(call.index[hash])

\* C27: fallback is transparent: with fd absent or failing, both functions
\* return what the walk returns; the caller gets an error exactly when the
\* walk fails, and the index is the one built from the walk's list.
C27_FallbackIsTheWalk ==
    (call.stage \in {"listed", "indexed"} /\ call.fd \in {"absent", "error"}) =>
        /\ [files |-> call.files, err |-> call.err]
              \in WalkResults(call.fn, call.tree, call.walkFails)
        /\ call.err <=> call.walkFails
        /\ ~call.err => call.files = WalkFiles(call.fn, call.tree)
        /\ call.stage = "indexed" =>
             call.index = IF call.err THEN <<>>
                          ELSE Duplicates(HashToFiles(WalkFiles(call.fn, call.tree)))

\* C27 witness: fd failed, and FindDuplicatesByHash returned, with no error,
\* an index with a group of three from the walk, the hidden file among them.
C27_Witness ==
    /\ call.stage = "indexed" /\ call.fd = "error" /\ ~call.err
    /\ \E hash \in DOMAIN call.index :
         /\ Len(call.index[hash]) = 3
         /\ ScanHidden \in Range(call.index[hash])

----------------------------------------------------------------------------
\* C28: no file is deleted without confirmation.  A step removes a path from
\* the disk only as the os.Remove of a started command, and the path is in
\* that command's batch; a command's batch never changes; a command is
\* started only in the confirmation state ('y') and its batch is the pending
\* batch of that moment; the pending batch takes a non-empty value only when
\* deletion is requested outside the confirmation state, and every path of
\* it is selected then.  No Update step (quit, skip, cancel, navigation,
\* selection, completion message) removes a file.
C28_Step ==
    /\ disk' \subseteq disk
    /\ disk' # disk =>
          /\ m' = m
          /\ Len(tasks') = Len(tasks)
          /\ \E i \in 1..Len(tasks) :
                /\ (disk \ disk') \subseteq Range(tasks[i].pending)
                /\ ~tasks[i].done
    /\ Len(tasks') <= Len(tasks) =>
          \A i \in 1..Len(tasks') :
              \E j \in 1..Len(tasks) : tasks'[i].pending = tasks[j].pending
    /\ Len(tasks') > Len(tasks) =>
          /\ m.confirmingDeletion
          /\ ~m'.confirmingDeletion
          /\ tasks'[Len(tasks')].pending = m.pendingDeletion
          /\ SubSeq(tasks', 1, Len(tasks)) = tasks
    /\ (m'.pendingDeletion # m.pendingDeletion /\ m'.pendingDeletion # <<>>) =>
          /\ ~m.confirmingDeletion
          /\ m'.confirmingDeletion
          /\ Range(m'.pendingDeletion) \subseteq SelectedSet(m.groups)

C28_DeletedOnlyAfterConfirmation == [][C28_Step]_vars

\* A confirmed command has removed a file of its batch while another file,
\* never put up for deletion, is selected.
C28_Witness ==
    \E i \in 1..Len(tasks) :
        /\ tasks[i].pos > 1
        /\ tasks[i].pending[1] \notin disk
        /\ \E p \in SelectedSet(m.groups) : p \notin Range(tasks[i].pending)

----------------------------------------------------------------------------
\* C29: every step that sets the quitting flag also returns tea.Quit: no
\* state has a quitting model and an event loop for which no quit command
\* has been returned, whichever way the flag was set (quit key, skip on the
\* last group, a deletion that empties the group list).
C29_QuittingEndsProgram == m.quitting => program # "running"

----------------------------------------------------------------------------
\* C30: cursor movement is bounded and resets the file cursor.  In every
\* reachable model, outside the confirmation state and with a group to show:
\* up and down change currentFile by one when the result is a file index of
\* the current group and change nothing otherwise; left and right change
\* currentGroup by one and set currentFile to 0 when the result is a group
\* index, and change nothing otherwise; a movement key changes nothing else
\* (no selection flag) and returns no command.  For every key in either
\* state, a changed currentGroup comes with currentFile = 0.
MoveKeys == {"up", "k", "down", "j", "left", "p", "right", "n"}

Moved(key, model) ==
    LET cg == model.currentGroup
        cf == model.currentFile
        size == Len(model.groups[cg + 1].Files)
        df == CASE key \in {"up", "k"} -> -1
                [] key \in {"down", "j"} -> 1
                [] OTHER -> 0
        dg == CASE key \in {"left", "p"} -> -1
                [] key \in {"right", "n"} -> 1
                [] OTHER -> 0
    IN  CASE df # 0 /\ cf + df \in 0..(size - 1) ->
                [model EXCEPT !.currentFile = cf + df]
          [] dg # 0 /\ cg + dg \in 0..(Len(model.groups) - 1) ->
                [model EXCEPT !.currentGroup = cg + dg, !.currentFile = 0]
          [] OTHER -> model

C30_CursorMovement ==
    /\ \A key \in Keys \cup MoveKeys \cup {"Y", "?"} :
          UpdateKey(m, key).m.currentGroup # m.currentGroup
              => UpdateKey(m, key).m.currentFile = 0
    /\ (~m.confirmingDeletion /\ Len(m.groups) > 0) =>
          \A key \in MoveKeys :
              UpdateKey(m, key) = Return(Moved(key, m), "nil")

\* The cursor has been moved to the last file of the last of several groups,
\* where down and right are at their boundary and up and left are not, and a
\* file is selected.
C30_Witness ==
    /\ ~m.confirmingDeletion
    /\ Len(m.groups) > 1
    /\ m.currentGroup = Len(m.groups) - 1
    /\ m.currentFile = Len(m.groups[m.currentGroup + 1].Files) - 1
    /\ SelectedSet(m.groups) # {}

----------------------------------------------------------------------------
\* C31: selection inputs touch the current group only.  In every reachable
\* model, outside the confirmation state and with a group to show: after
\* space the flag at the cursor is flipped, after 'a' every flag of the
\* current group is set, after 'c' every flag of it is clear; the flags of
\* every other group, every group's hash, files and deleted files, the
\* cursor and the rest of the model are as before, and no command is
\* returned.
SelectionKeys == {" ", "a", "c"}

FlagAfter(key, old, atCursor) ==
    CASE key = " " -> (IF atCursor THEN ~old ELSE old)
      [] key = "a" -> TRUE
      [] key = "c" -> FALSE

C31_SelectionTouchesCurrentGroup ==
    (~m.confirmingDeletion /\ Len(m.groups) > 0) =>
        \A key \in SelectionKeys :
            LET r == UpdateKey(m, key)
                n == r.m
            IN  /\ r.cmd = "nil"
                /\ [n EXCEPT !.groups = m.groups] = m
                /\ Len(n.groups) = Len(m.groups)
                /\ \A g \in 1..Len(m.groups) :
                      /\ [n.groups[g] EXCEPT !.Selected = m.groups[g].Selected]
                             = m.groups[g]
                      /\ Len(n.groups[g].Selected) = Len(m.groups[g].Selected)
                      /\ \A i \in 1..Len(m.groups[g].Selected) :
                            n.groups[g].Selected[i] =
                                IF g = m.currentGroup + 1
                                THEN FlagAfter(key, m.groups[g].Selected[i],
                                               i = m.currentFile + 1)
                                ELSE m.groups[g].Selected[i]

\* The cursor is on an unselected file, not the first, of a group that also
\* has a selected file, and another group holds a selected and an
\* unselected file: each of the three inputs changes flags of the current
\* group and has flags of another group to leave alone.
C31_Witness ==
    /\ ~m.confirmingDeletion
    /\ Len(m.groups) > 1
    /\ m.currentFile > 0
    /\ ~m.groups[m.currentGroup + 1].Selected[m.currentFile + 1]
    /\ \E i \in 1..Len(m.groups[m.currentGroup + 1].Selected) :
          m.groups[m.currentGroup + 1].Selected[i]
    /\ \E g \in 1..Len(m.groups) :
          /\ g # m.currentGroup + 1
          /\ \E i, j \in 1..Len(m.groups[g].Selected) :
                m.groups[g].Selected[i] /\ ~m.groups[g].Selected[j]

----------------------------------------------------------------------------
\* C32: skip.  In every reachable model, outside the confirmation state and
\* with a group to show, 's' gives the model with the cursor on the next
\* group and file 0 and no command, or, on the last group, the model with
\* quitting set and the quit command; it never returns the deletion command
\* and the groups (files and flags) are as before.  When the skip has not
\* quit, a deletion requested next puts up every file selected before the
\* skip, in whichever group.
AfterSkip == UpdateKey(m, "s")

C32_Skip ==
    (~m.confirmingDeletion /\ Len(m.groups) > 0) =>
        /\ AfterSkip.m.groups = m.groups
        /\ IF m.currentGroup + 1 < Len(m.groups)
           THEN /\ AfterSkip.cmd = "nil"
                /\ AfterSkip.m = [m EXCEPT !.currentGroup = m.currentGroup + 1,
                                           !.currentFile = 0]
                /\ SelectedSet(m.groups) # {} =>
                      /\ UpdateKey(AfterSkip.m, "enter").m.confirmingDeletion
                      /\ Range(UpdateKey(AfterSkip.m, "enter").m.pendingDeletion)
                             = SelectedSet(m.groups)
           ELSE /\ AfterSkip.cmd = "tea.Quit"
                /\ AfterSkip.m = [m EXCEPT !.quitting = TRUE]

\* The cursor is past a group that holds a selected file, and the batch put
\* up for confirmation holds that file.
C32_Witness ==
    /\ m.confirmingDeletion
    /\ m.currentGroup > 0
    /\ m.currentFile = 0
    /\ \E g \in 1..m.currentGroup :
          \E i \in 1..Len(m.groups[g].Files) :
              /\ m.groups[g].Selected[i]
              /\ m.groups[g].Files[i] \in Range(m.pendingDeletion)

----------------------------------------------------------------------------
\* C33: idle with no active group.  In every reachable model with an empty
\* group list and no prompt open, every key but q and ctrl+c returns the
\* model as it is and no command (the handler is evaluated for each key, so
\* it reads no entry of the empty list), and q and ctrl+c return the model
\* with quitting set and the quit command.
AllKeys == Keys \cup MoveKeys \cup {"Y", "?"}

C33_NoGroupsOnlyQuit ==
    (~m.confirmingDeletion /\ Len(m.groups) = 0) =>
        \A key \in AllKeys :
            UpdateKey(m, key) =
                IF key \in {"q", "ctrl+c"}
                THEN Return([m EXCEPT !.quitting = TRUE], "tea.Quit")
                ELSE Return(m, "nil")

\* The event loop runs with no group and no prompt after a deletion has
\* removed the last groups: keys are handled by the no-groups branch.
C33_Witness ==
    /\ program = "running"
    /\ Len(m.groups) = 0
    /\ ~m.confirmingDeletion
    /\ lastRemoved # <<>>

----------------------------------------------------------------------------
\* C34: the initial state.  The model built from an index has as many
\* groups as the index has hashes and, for every hash, exactly one group
\* with that hash, whose files are the index's list for it; every group has
\* one false flag per file and no deleted file; the cursor is at group 0,
\* file 0; there is no pending batch, no prompt and the model is not
\* quitting; it has a group to show iff the index has a hash, and keys go
\* to the no-groups branch otherwise.
GroupsOf(hash) == {g \in 1..Len(m.groups) : m.groups[g].Hash = hash}

C34_InitialModel ==
    call.stage = "built" =>
        /\ Len(m.groups) = Cardinality(DOMAIN call.duplicates)
        /\ \A hash \in DOMAIN call.duplicates :
              /\ Cardinality(GroupsOf(hash)) = 1
              /\ \A g \in GroupsOf(hash) : m.groups[g].Files = call.duplicates[hash]
        /\ \A g \in 1..Len(m.groups) :
              /\ m.groups[g].Hash \in DOMAIN call.duplicates
              /\ Len(m.groups[g].Selected) = Len(m.groups[g].Files)
              /\ \A i \in 1..Len(m.groups[g].Selected) : ~m.groups[g].Selected[i]
              /\ m.groups[g].DeletedFiles = <<>>
        /\ m.currentGroup = 0
        /\ m.currentFile = 0
        /\ m.pendingDeletion = <<>>
        /\ ~m.confirmingDeletion
        /\ ~m.quitting
        /\ (Len(m.groups) > 0) <=> (DOMAIN call.duplicates # {})
        /\ (DOMAIN call.duplicates = {}) =>
              \A key \in AllKeys : UpdateKey(m, key) = NoGroupsInput(m, key)

\* A model built from an index of two hashes, the groups in the other order
\* than the hashes', one of them with three files.
C34_Witness ==
    /\ call.stage = "built"
    /\ Len(m.groups) = 2
    /\ m.groups[1].Hash > m.groups[2].Hash
    /\ Len(m.groups[1].Files) = 3

----------------------------------------------------------------------------
\* C35: sequential and pooled tagging are equivalent.  For a batch of
\* distinct files, the filesystem at the end of the invocation is one the
\* sequential loop leaves for the same files and the same outcomes of
\* ffprobe, the checksum and the rename, whichever way the batch was run.
Distinct(files) ==
    \A i, j \in 1..Len(files) : i # j => files[i] # files[j]

\* processVideoFileCore gets past its validation for this file.
Processable(disk0, videoFile) ==
    /\ videoFile \in DOMAIN disk0
    /\ ~disk0[videoFile].IsDir
    /\ IsVideoFile(videoFile)
    /\ ~IsProcessed(videoFile)

TaggedName(disk0, videoFile) ==
    generateTaggedFilename(videoFile, Media[disk0[videoFile].content],
                           Media[disk0[videoFile].content].crc)

\* The filesystems the sequential loop of Run (lines 65-70) can leave from
\* entry i on, the tools failing for the entries recorded as errors,
\* succeeding for those recorded as renamed, and either for the rest: a file
\* that fails or is skipped leaves the disk as it is and the loop goes on; a
\* renamed file ends the loop, ProcessVideoFile panicking after the rename.
RECURSIVE SequentialLeaves(_, _, _)
SequentialLeaves(disk0, files, i) ==
    IF i > Len(files) THEN {disk0}
    ELSE LET videoFile == files[i]
             rest == SequentialLeaves(disk0, files, i + 1)
         IN  IF ~Processable(disk0, videoFile) THEN rest
             ELSE LET renamed == {Rename(disk0, videoFile, TaggedName(disk0, videoFile))}
                  IN  CASE results[i].outcome = "error" -> rest
                        [] results[i].outcome = "renamed" -> renamed
                        [] OTHER -> rest \cup renamed

BatchOver == run.pc \in {"complete", "panicked"} /\ run.pass = 1

C35_SequentialEqualsPooled ==
    (BatchOver /\ Distinct(run.Files)) =>
        fs \in SequentialLeaves(InitFs, run.Files, 1)

----------------------------------------------------------------------------
\* C36: the pool is bounded.  While the pool runs there are at most
\* run.workers workers, so at most that many files are inside
\* ProcessVideoFile, each taken from the queue once per worker holding it.  A
\* worker takes a file only at the head of its loop, and the file it held
\* before has its outcome by then: error, skip, or renamed and reported.
InProgress(proc) ==
    proc.pc \in {"validate", "metadata", "duration", "hash", "rename", "report", "panic"}

WorkersBusy == {k \in 1..Len(procs) : InProgress(procs[k])}

C36_Bounded ==
    run.pool =>
        /\ Len(procs) <= run.workers
        /\ Cardinality(WorkersBusy) <= run.workers
        /\ \A k \in WorkersBusy :
              /\ procs[k].idx \in 1..Len(run.Files)
              /\ procs[k].file = run.Files[procs[k].idx]
              /\ results[procs[k].idx].taken >= 1

\* Worker k takes a file in this step.
Takes(k) ==
    /\ k \in 1..Len(procs')
    /\ InProgress(procs'[k])
    /\ procs'[k].pc = "validate"
    /\ (~InProgress(procs[k]) \/ procs'[k].idx # procs[k].idx)

C36_OneAtATime ==
    (run.pool /\ run'.pool) =>
        \A k \in 1..Len(procs) :
            Takes(k) =>
                /\ procs[k].pc = "range"
                /\ procs[k].idx # 0 =>
                      results[procs[k].idx].outcome \in {"error", "skipped", "renamed"}

C36_PoolIsBounded == []C36_Bounded /\ [][C36_OneAtATime]_vars

\* As many files are in processing as there are workers: two workers, each
\* inside ProcessVideoFile on its own file, one about to rename and the other
\* about to probe.
C36_Witness ==
    /\ run.pool
    /\ run.workers = 2
    /\ Cardinality(WorkersBusy) = 2
    /\ \E j, k \in WorkersBusy :
          /\ procs[j].idx # procs[k].idx
          /\ procs[j].pc = "rename"
          /\ procs[k].pc = "metadata"

----------------------------------------------------------------------------
\* C37: ProcessVideoFile returns normally, whatever the file and whatever
\* its sub-steps yield: no call of it ends the process with a panic.
C37_ReturnsNormally == run.pc # "panicked"

----------------------------------------------------------------------------
\* C38: every result of processVideoFileCore has exactly one of the
\* outcomes error, skipped and renamed; it carries a new path only if the
\* file was renamed; and it is renamed iff the file is at the new path and
\* no longer at the original one.
Finished(i) == results[i].outcome # "none"

C38_OneOutcome ==
    \A i \in 1..Len(results) :
        Finished(i) => results[i].outcome \in {"error", "skipped", "renamed"}

C38_NewPathOnlyIfRenamed ==
    \A i \in 1..Len(results) :
        (Finished(i) /\ results[i].NewPath # <<>>) => results[i].outcome = "renamed"

C38_RenamedIffMoved ==
    \A i \in 1..Len(results) :
        Finished(i) =>
            (results[i].outcome = "renamed"
                <=> /\ results[i].NewPath \in DOMAIN fs
                    /\ run.Files[i] \notin DOMAIN fs)

C38_ResultShape ==
    /\ C38_OneOutcome
    /\ C38_NewPathOnlyIfRenamed
    /\ C38_RenamedIffMoved

----------------------------------------------------------------------------
\* C39: re-encode replacement is safe.  When ReencodeToH265 has returned
\* after getting as far as the encoder, whichever of the encoder, the size
\* check and the renames failed and with or without KeepOriginal: no file is
\* at the temporary path; a file is at the original path, holding the
\* encoder's output if the result is WasReencoded and the original content
\* otherwise; and with WasReencoded and KeepOriginal the original content is
\* at the backup path.  (The removal of the temporary file is taken to
\* succeed: its failure is none of the failures named.)
Holds(path, content) ==
    path \in DOMAIN call.disk /\ call.disk[path] = content

EncoderReached == call.deferred /\ "remove" \notin call.failed

C39_ReplacementSafe ==
    (call.stage = "returned" /\ EncoderReached) =>
        /\ TempPath \notin DOMAIN call.disk
        /\ IF call.result = "reencoded"
           THEN /\ Holds(OriginalPath, "reencoded")
                /\ call.KeepOriginal => Holds(BackupPath, "original")
           ELSE Holds(OriginalPath, "original")

====
